---- MODULE Spec2Model ----
(***************************************************************************)
(* sora2api: credential rotation (TokenManager), admission control         *)
(* (ConcurrencyManager), dispatch (LoadBalancer) and the per-request       *)
(* orchestration (GenerationHandler.handleChatCompletion).                 *)
(*                                                                         *)
(* The program is single-threaded JavaScript: code between two awaits (or  *)
(* yields) runs without interruption, and any other ready task may run at  *)
(* an await.  Every action below is one such uninterrupted block.          *)
(***************************************************************************)
EXTENDS Integers, Sequences, FiniteSets, TLC

\* ------------------------------------------------------------------ bounds
MaxTokens == 3
MaxBudget == 2
NumCallers == 4
NumAcquirers == 5
NumRequests == 2
NumStreams == 1
NumObserved == 2
MaxWrites == 1
MaxTimers == 2
NumPoolCallers == 1
MaxPicks == 5
NumCacheTasks == 2
MaxTime == 2
MaxTimeout == 1
NumConfigTasks == 1
MaxAccess == 2

\* ----------------------------------------------------------------- values
NULL == "null"

\* ConcurrencyManager.maxConcurrentPerToken and config.cacheTimeout by default
DefaultMaxConcurrent == 3
DefaultCacheTimeout == 3600

TokenNames == <<"t1", "t2", "t3", "t4", "t5", "t6">>

\* The token strings handed to addToken: a new one, and one the pool may hold
AddedTokens == {TokenNames[MaxTokens + 1], TokenNames[1]}

VARIABLES
  tokens,                 \* TokenManager.tokens: sequence of [token, enabled]
  tokenIndex,             \* TokenManager.tokenIndex
  tokenUsage,             \* ConcurrencyManager.tokenUsage: token -> [current, max]
  maxConcurrentPerToken,  \* ConcurrencyManager.maxConcurrentPerToken
  pc,                     \* per task: the await / yield it is suspended at
  gt,                     \* per task: the frame of its LoadBalancer.getToken call
  held,                   \* per direct caller of the LoadBalancer: the token it got
  hs,                     \* per request: locals of handleChatCompletion
  frames,                 \* per request: frames yielded by the generator, in order
  delivered,              \* per request: frames received by the consumer, in order
  tasks,                  \* Database: per request, the writes to its task record
  logs,                   \* Database: the request log, in append order
  released,               \* per request: the arguments of its releaseToken calls
  calls,                  \* per request: the SoraClient operations it invoked
  picks,                  \* the results of the first MaxPicks getNextToken() calls
  releases,               \* releaseToken calls on a token the caller does not hold
  cacheEnabled,           \* config.cacheEnabled
  isDenoDeploy,           \* FileCache.isDenoDeploy
  cacheTimeout,           \* config.cacheTimeout, in seconds
  cacheMap,               \* FileCache.cacheMap: its entries in insertion order
  files,                  \* the paths present in the cache directory
  now,                    \* Date.now()
  ct,                     \* per cache task: the operation it runs and its locals
  wire,                   \* per request: its streaming transport and what it wrote
  snapshot,               \* the Map an observer got from getAllTokenUsage()
  timers,                 \* the interval timers of the runtime and FileCache.cleanupInterval
  overrides               \* which of Config._cacheEnabled, Config._cacheTimeout are set

\* The state of the FileCache and of what it reads
cacheVars == <<cacheEnabled, isDenoDeploy, cacheTimeout, cacheMap, files, now, ct>>

\* The state of the application that hosts the services
hostVars == <<wire, snapshot, timers, overrides>>

vars == <<tokens, tokenIndex, tokenUsage, maxConcurrentPerToken, pc, gt, held,
          hs, frames, delivered, tasks, logs, released, calls, picks, cacheVars, releases,
          hostVars>>

Procs == DOMAIN pc

\* Everything but the state of the FileCache
coreVars == <<tokens, tokenIndex, tokenUsage, maxConcurrentPerToken, pc, gt, held,
              hs, frames, delivered, tasks, logs, released, calls, picks,
              releases>>

CTasks == DOMAIN ct

\* ------------------------------------------------------------ TokenManager

\* getNextToken: const enabledTokens = this.tokens.filter(token => token.enabled)
enabledTokens(toks) == SelectSeq(toks, LAMBDA t : t.enabled)

\* getTokensCount
getTokensCount(toks) == Len(enabledTokens(toks))

\* getNextToken: enabledTokens[this.tokenIndex % enabledTokens.length]
SelectIndex(idx, len) == idx % len

AdvanceIndexStuck(idx, len) == idx % len

\* getNextToken: this.tokenIndex = (this.tokenIndex + 1) % enabledTokens.length
AdvanceIndex(idx, len) == (idx + 1) % len

getNextTokenAny(toks, idx) ==
  IF Len(toks) = 0 THEN NULL ELSE toks[SelectIndex(idx, Len(toks)) + 1].token

\* getNextToken, the value returned (the token string is all its callers read)
getNextToken(toks, idx) ==
  LET en == enabledTokens(toks) IN
  IF Len(en) = 0 THEN NULL ELSE en[SelectIndex(idx, Len(en)) + 1].token

getNextTokenIndexLost(toks, idx) == idx

\* getNextToken, the cursor it leaves
getNextTokenIndex(toks, idx) ==
  LET en == enabledTokens(toks) IN
  IF Len(en) = 0 THEN idx ELSE AdvanceIndex(idx, Len(en))

EnabledIds(toks) == {toks[k].token : k \in {j \in 1..Len(toks) : toks[j].enabled}}

\* ------------------------------------------------------ ConcurrencyManager

\* initialize(tokens)
initialize(toks, max) ==
  [t \in {toks[k].token : k \in 1..Len(toks)} |-> [current |-> 0, max |-> max]]

BelowMaxInclusive(current, max) == current <= max

\* usage.current < usage.max
BelowMax(current, max) == current < max

\* canUseToken(token)
canUseToken(usage, token) ==
  IF token \in DOMAIN usage
  THEN BelowMax(usage[token].current, usage[token].max)
  ELSE FALSE

incrementUsageLost(usage, token) == usage

\* incrementUsage(token)
incrementUsage(usage, token) ==
  IF token \in DOMAIN usage
  THEN [usage EXCEPT ![token].current = @ + 1]
  ELSE usage

\* decrementUsage(token)
decrementUsage(usage, token) ==
  IF token \in DOMAIN usage /\ usage[token].current > 0
  THEN [usage EXCEPT ![token].current = @ - 1]
  ELSE usage

\* decrementUsage(token): what the call throws or writes to the console (neither
\* branch does either, and the promise resolves with undefined)
decrementUsageSignal(usage, token) == "none"

\* getAvailableTokensCount
getAvailableTokensCount(usage) ==
  Cardinality({t \in DOMAIN usage : usage[t].current < usage[t].max})

\* getStats: tokenStats, whose two counts are computed without an await between
\* them
tokenStats(toks, usage) ==
  [total |-> getTokensCount(toks), available |-> getAvailableTokensCount(usage)]

\* ----------------------------------------------------- LoadBalancer.getToken

\* The record of getNextToken() results, which keeps the first MaxPicks of them
LogPick(log, result) ==
  IF Len(log) < MaxPicks THEN Append(log, result) ELSE log

NoFrame == [n |-> 0, i |-> 0, cand |-> NULL, ok |-> FALSE, ret |-> NULL]

\* The loop of getToken from its test "i < tokens.length" up to the next await
\* (await canUseToken) or to "return null".  n is the length of the array
\* getTokens() returned when the call began.
LoopFrom(r, i, n) ==
  LET token == getNextToken(tokens, tokenIndex) IN
  IF i < n /\ token # NULL
  THEN /\ tokenIndex' = getNextTokenIndex(tokens, tokenIndex)
       /\ picks' = LogPick(picks, token)
       /\ gt' = [gt EXCEPT ![r] = [n |-> n, i |-> i, cand |-> token,
                                   ok |-> canUseToken(tokenUsage, token),
                                   ret |-> NULL]]
       /\ pc' = [pc EXCEPT ![r] = "gt_canUse"]
  ELSE /\ tokenIndex' = tokenIndex
       /\ picks' = IF i < n THEN LogPick(picks, token) ELSE picks
       /\ gt' = [gt EXCEPT ![r] = [n |-> n, i |-> i, cand |-> NULL,
                                   ok |-> FALSE, ret |-> NULL]]
       /\ pc' = [pc EXCEPT ![r] = "gt_ret"]

\* getToken is called: const tokens = getTokens(); the loop starts at i = 0.
GetTokenCall(r) ==
  /\ LoopFrom(r, 0, Len(tokens))
  /\ tokenUsage' = tokenUsage

\* "await canUseToken(...)" resumes: increment and await it, or try the next pick.
GetTokenChecked(r) ==
  /\ pc[r] = "gt_canUse"
  /\ IF gt[r].ok
     THEN /\ tokenUsage' = incrementUsage(tokenUsage, gt[r].cand)
          /\ pc' = [pc EXCEPT ![r] = "gt_increment"]
          /\ UNCHANGED <<gt, tokenIndex, picks>>
     ELSE /\ LoopFrom(r, gt[r].i + 1, gt[r].n)
          /\ tokenUsage' = tokenUsage
  /\ UNCHANGED <<tokens, maxConcurrentPerToken, held, hs, frames, delivered,
                 tasks, logs, released, calls, cacheVars, hostVars, releases>>

\* "await incrementUsage(...)" resumes: return token.token.
GetTokenIncremented(r) ==
  /\ pc[r] = "gt_increment"
  /\ gt' = [gt EXCEPT ![r].ret = gt[r].cand]
  /\ pc' = [pc EXCEPT ![r] = "gt_ret"]
  /\ UNCHANGED <<tokens, tokenIndex, tokenUsage, maxConcurrentPerToken, held,
                 hs, frames, delivered, tasks, logs, released, calls, picks, cacheVars, hostVars, releases>>

\* --------------------------------------- direct callers of the LoadBalancer

\* A caller calls loadBalancer.getToken().
CallerGetToken(r) ==
  /\ pc[r] = "idle"
  /\ GetTokenCall(r)
  /\ UNCHANGED <<tokens, maxConcurrentPerToken, held, hs, frames, delivered,
                 tasks, logs, released, calls, cacheVars, hostVars, releases>>

\* The caller's "await getToken()" resumes with the value returned.
CallerGotToken(r) ==
  /\ pc[r] = "gt_ret"
  /\ held' = [held EXCEPT ![r] = gt[r].ret]
  /\ pc' = [pc EXCEPT ![r] = IF gt[r].ret = NULL THEN "refused" ELSE "holding"]
  /\ UNCHANGED <<tokens, tokenIndex, tokenUsage, maxConcurrentPerToken, gt,
                 hs, frames, delivered, tasks, logs, released, calls, picks, cacheVars, hostVars, releases>>

\* The caller calls loadBalancer.releaseToken(token) with the token it got.
CallerRelease(r) ==
  /\ pc[r] = "holding"
  /\ tokenUsage' = decrementUsage(tokenUsage, held[r])
  /\ held' = [held EXCEPT ![r] = NULL]
  /\ pc' = [pc EXCEPT ![r] = "released"]
  /\ UNCHANGED <<tokens, tokenIndex, maxConcurrentPerToken, gt, hs, frames,
                 delivered, tasks, logs, released, calls, picks, cacheVars, hostVars, releases>>

\* ------------------------------------- GenerationHandler.handleChatCompletion

\* MODEL_CONFIG: the type of each catalogued model
MODEL_CONFIG ==
  [m \in {"sora-image", "sora-image-landscape", "sora-image-portrait",
          "sora-video-10s", "sora-video-15s", "sora-video-landscape-10s",
          "sora-video-landscape-15s", "sora-video-portrait-10s",
          "sora-video-portrait-15s"} |->
     IF m \in {"sora-image", "sora-image-landscape", "sora-image-portrait"}
     THEN "image" ELSE "video"]

\* Names that a lookup on a plain object finds on Object.prototype
\* (Object.getOwnPropertyNames(Object.prototype)); each of them is truthy.
InheritedNames ==
  {"constructor", "toString", "valueOf", "hasOwnProperty", "isPrototypeOf",
   "propertyIsEnumerable", "toLocaleString", "__defineGetter__",
   "__defineSetter__", "__lookupGetter__", "__lookupSetter__", "__proto__"}

\* MODEL_CONFIG[model]: the type of a catalogued model, a member of Object.prototype
\* (truthy, and its .type is undefined) for an inherited name, else undefined.
ModelLookup(model) ==
  IF model \in DOMAIN MODEL_CONFIG THEN MODEL_CONFIG[model]
  ELSE IF model \in InheritedNames THEN "inherited"
  ELSE NULL

\* Requests: a model name and the content of the last message: plain text, parts
\* with an image_url, parts with a video_url, or a request with no messages array
\* (parseRequest throws).
Inputs ==
  { [model |-> "sora-image", content |-> "text"],
    [model |-> "sora-image", content |-> "image"],
    [model |-> "sora-video-10s", content |-> "text"],
    [model |-> "sora-video-10s", content |-> "image"],
    [model |-> "sora-video-10s", content |-> "video"],
    [model |-> "sora-unknown", content |-> "text"],
    [model |-> "constructor", content |-> "text"],
    [model |-> "toString", content |-> "image"],
    [model |-> "sora-image", content |-> "malformed"] }

\* What the upstream call may return, and the messages of the errors it may throw.
Urls == {"https://example.com/generated/1", "https://example.com/generated/2"}
UpstreamErrors == {"upstream error", ""}

\* JavaScript truthiness of a string or null
Truthy(x) == x # NULL /\ x # ""

\* No request body read yet
NoRequest == [model |-> NULL, content |-> NULL]

\* returned: the generator was resumed by return() and not by next()
NoLocals ==
  [request |-> NoRequest, tokenUsed |-> NULL, resultUrl |-> NULL, error |-> NULL,
   returned |-> FALSE]

\* parseRequest: whether it throws, and the imageData and videoData it extracts
parseThrows(request) == request.content = "malformed"
imageData(request) == IF request.content = "image" THEN "image-ref" ELSE NULL
videoData(request) == IF request.content = "video" THEN "video-ref" ELSE NULL

InitialFrameStop ==
  [text |-> "Processing your request...", ref |-> NULL, finish_reason |-> "stop"]

\* The frame of "Send initial response"
InitialFrame ==
  [text |-> "Processing your request...", ref |-> NULL, finish_reason |-> NULL]

FinalFrameNoUrl(url) ==
  [text |-> "Generation complete", ref |-> NULL, finish_reason |-> "stop"]

\* The frame of "Send final response"
FinalFrame(url) ==
  [text |-> "Generation complete", ref |-> url, finish_reason |-> "stop"]

\* The frame of "Send error response"
ErrorFrame(error) ==
  [text |-> "Error", ref |-> error, finish_reason |-> "stop"]

\* The SoraClient operation chosen by modelConfig.type and imageData
SelectOperation(type, image) ==
  IF type = "image"
  THEN IF Truthy(image) THEN "generateImageFromImage" ELSE "generateImage"
  ELSE IF Truthy(image) THEN "generateVideoFromImage" ELSE "generateVideo"

MustReleaseAlways(tokenUsed) == TRUE

\* finally: if (tokenUsed)
MustRelease(tokenUsed) == Truthy(tokenUsed)

\* finally: status: error ? "failed" : "completed"
LogStatus(error) == IF Truthy(error) THEN "failed" ELSE "completed"

\* finally: the record handed to db.addLog
LogEntry(r, l) ==
  [requestId |-> r, model |-> l.request.model, status |-> LogStatus(l.error),
   tokenUsed |-> l.tokenUsed, hasResult |-> Truthy(l.resultUrl),
   error |-> l.error]

addLogOnSuccess(lg, entry) ==
  IF entry.status = "failed" THEN lg ELSE Append(lg, entry)

\* db.addLog(log)
addLog(lg, entry) == Append(lg, entry)

addTaskProcessing == <<[status |-> "processing", resultUrl |-> NULL]>>

\* db.addTask(task), with status: "pending", resultUrl: null
addTask == <<[status |-> "pending", resultUrl |-> NULL]>>

\* db.updateTaskStatus(taskId, status, resultUrl)
updateTaskStatus(task, status, resultUrl) ==
  Append(task, [status |-> status, resultUrl |-> resultUrl])

\* catch (e): error = e.message, then the error frame is yielded.
Catch(r, locals, message) ==
  /\ hs' = [hs EXCEPT ![r] = [locals EXCEPT !.error = message]]
  /\ frames' = [frames EXCEPT ![r] = Append(@, ErrorFrame(message))]
  /\ pc' = [pc EXCEPT ![r] = "yield_error"]

\* The first next() of the generator: startTime, then "await getToken()".
HandlerStart(r) ==
  /\ pc[r] = "start"
  /\ \E request \in Inputs :
       hs' = [hs EXCEPT ![r] = [NoLocals EXCEPT !.request = request]]
  /\ GetTokenCall(r)
  /\ UNCHANGED <<tokens, maxConcurrentPerToken, held, frames, delivered,
                 tasks, logs, released, calls, cacheVars, hostVars, releases>>

\* "await getToken()" resumes: the capacity test, parseRequest, the model lookup,
\* then db.addTask is called and awaited.
HandlerGotToken(r) ==
  /\ pc[r] = "gt_ret"
  /\ LET locals == [hs[r] EXCEPT !.tokenUsed = gt[r].ret] IN
     IF ~Truthy(locals.tokenUsed)
     THEN Catch(r, locals, "No available tokens") /\ tasks' = tasks
     ELSE IF parseThrows(locals.request)
     THEN Catch(r, locals, "Cannot read properties of undefined") /\ tasks' = tasks
     ELSE IF ~Truthy(ModelLookup(locals.request.model))
     THEN Catch(r, locals, "Unknown model") /\ tasks' = tasks
     ELSE /\ hs' = [hs EXCEPT ![r] = locals]
          /\ tasks' = [tasks EXCEPT ![r] = addTask]
          /\ pc' = [pc EXCEPT ![r] = "addTask"]
          /\ frames' = frames
  /\ UNCHANGED <<tokens, tokenIndex, tokenUsage, maxConcurrentPerToken, gt,
                 held, delivered, logs, released, calls, picks, cacheVars, hostVars, releases>>

\* "await db.addTask()" resumes: db.updateTaskStatus(taskId, "processing").
HandlerTaskAdded(r) ==
  /\ pc[r] = "addTask"
  /\ tasks' = [tasks EXCEPT ![r] = updateTaskStatus(@, "processing", NULL)]
  /\ pc' = [pc EXCEPT ![r] = "update_processing"]
  /\ UNCHANGED <<tokens, tokenIndex, tokenUsage, maxConcurrentPerToken, gt,
                 held, hs, frames, delivered, logs, released, calls, picks, cacheVars, hostVars, releases>>

\* "await db.updateTaskStatus(processing)" resumes: the initial frame is yielded.
HandlerYieldInitial(r) ==
  /\ pc[r] = "update_processing"
  /\ frames' = [frames EXCEPT ![r] = Append(@, InitialFrame)]
  /\ pc' = [pc EXCEPT ![r] = "yield_initial"]
  /\ UNCHANGED <<tokens, tokenIndex, tokenUsage, maxConcurrentPerToken, gt,
                 held, hs, delivered, tasks, logs, released, calls, picks, cacheVars, hostVars, releases>>

\* The consumer has the initial frame and calls next(): the SoraClient operation
\* is called and awaited.
HandlerCallUpstream(r) ==
  /\ pc[r] = "yield_initial"
  /\ delivered' = [delivered EXCEPT ![r] = Append(@, frames[r][Len(frames[r])])]
  /\ calls' = [calls EXCEPT ![r] =
                 Append(@, [op |-> SelectOperation(ModelLookup(hs[r].request.model),
                                                   imageData(hs[r].request)),
                            token |-> hs[r].tokenUsed,
                            result |-> NULL])]
  /\ pc' = [pc EXCEPT ![r] = "upstream"]
  /\ UNCHANGED <<tokens, tokenIndex, tokenUsage, maxConcurrentPerToken, gt,
                 held, hs, frames, tasks, logs, released, picks, cacheVars, hostVars, releases>>

\* The upstream call returns a URL: resultUrl = generationResult, then
\* db.updateTaskStatus(taskId, "completed", resultUrl).
UpstreamReturns(r) ==
  /\ pc[r] = "upstream"
  /\ \E url \in Urls :
       /\ calls' = [calls EXCEPT ![r][Len(calls[r])].result = url]
       /\ hs' = [hs EXCEPT ![r].resultUrl = url]
       /\ tasks' = [tasks EXCEPT ![r] = updateTaskStatus(@, "completed", url)]
  /\ pc' = [pc EXCEPT ![r] = "update_completed"]
  /\ UNCHANGED <<tokens, tokenIndex, tokenUsage, maxConcurrentPerToken, gt,
                 held, frames, delivered, logs, released, picks, cacheVars, hostVars, releases>>

\* The upstream call throws.
UpstreamThrows(r) ==
  /\ pc[r] = "upstream"
  /\ \E message \in UpstreamErrors : Catch(r, hs[r], message)
  /\ calls' = [calls EXCEPT ![r][Len(calls[r])].result = "thrown"]
  /\ UNCHANGED <<tokens, tokenIndex, tokenUsage, maxConcurrentPerToken, gt,
                 held, delivered, tasks, logs, released, picks, cacheVars, hostVars, releases>>

\* "await db.updateTaskStatus(completed)" resumes: the final frame is yielded.
HandlerYieldFinal(r) ==
  /\ pc[r] = "update_completed"
  /\ frames' = [frames EXCEPT ![r] = Append(@, FinalFrame(hs[r].resultUrl))]
  /\ pc' = [pc EXCEPT ![r] = "yield_final"]
  /\ UNCHANGED <<tokens, tokenIndex, tokenUsage, maxConcurrentPerToken, gt,
                 held, hs, delivered, tasks, logs, released, calls, picks, cacheVars, hostVars, releases>>

\* finally, after the release: processingTime, then db.addLog is called and awaited.
FinallyLog(r) ==
  /\ logs' = addLog(logs, LogEntry(r, hs[r]))
  /\ pc' = [pc EXCEPT ![r] = "addLog"]

\* The finally block up to its first await, entered from a yield by next() or by
\* return(): "await releaseToken(tokenUsed)" if a token was used, else db.addLog.
RunFinally(r, returned) ==
  /\ delivered' = [delivered EXCEPT ![r] = Append(@, frames[r][Len(frames[r])])]
  /\ hs' = [hs EXCEPT ![r].returned = returned]
  /\ IF MustRelease(hs[r].tokenUsed)
     THEN /\ tokenUsage' = decrementUsage(tokenUsage, hs[r].tokenUsed)
          /\ released' = [released EXCEPT ![r] = Append(@, hs[r].tokenUsed)]
          /\ pc' = [pc EXCEPT ![r] = "releaseToken"]
          /\ logs' = logs
     ELSE /\ FinallyLog(r)
          /\ UNCHANGED <<tokenUsage, released>>
  /\ UNCHANGED <<tokens, tokenIndex, maxConcurrentPerToken, gt, held,
                 frames, tasks, calls, picks, cacheVars, releases>>

\* The consumer has the last frame of the try or catch block and calls next():
\* finally runs.
HandlerFinally(r) ==
  /\ pc[r] \in {"yield_final", "yield_error"}
  /\ RunFinally(r, hs[r].returned)
  /\ UNCHANGED hostVars

\* The consumer has the frame of the initial yield and stops iterating: its
\* for-await loop calls return() on the generator, which resumes at the yield with
\* a return completion, so that the finally block runs and nothing else of the
\* try block.  (At the yields that end the try and catch blocks return() and
\* next() run the same code: HandlerFinally.)
ConsumerReturns(r) ==
  /\ pc[r] = "yield_initial"
  /\ RunFinally(r, TRUE)
  /\ UNCHANGED hostVars

\* "await releaseToken()" resumes.
HandlerReleased(r) ==
  /\ pc[r] = "releaseToken"
  /\ FinallyLog(r)
  /\ UNCHANGED <<tokens, tokenIndex, tokenUsage, maxConcurrentPerToken, gt,
                 held, hs, frames, delivered, tasks, released, calls, picks, cacheVars, hostVars, releases>>

\* "await db.addLog()" resumes: the generator is done.
HandlerDone(r) ==
  /\ pc[r] = "addLog"
  /\ pc' = [pc EXCEPT ![r] = "done"]
  /\ UNCHANGED <<tokens, tokenIndex, tokenUsage, maxConcurrentPerToken, gt,
                 held, hs, frames, delivered, tasks, logs, released, calls,
                 picks, cacheVars, hostVars, releases>>

\* A rejected persistence call inside the try block: the catch block runs.
AddTaskThrows(r) ==
  /\ pc[r] = "addTask"
  /\ Catch(r, hs[r], "database error")
  /\ tasks' = [tasks EXCEPT ![r] = <<>>]
  /\ UNCHANGED <<tokens, tokenIndex, tokenUsage, maxConcurrentPerToken, gt,
                 held, delivered, logs, released, calls, picks, cacheVars, hostVars, releases>>

UpdateProcessingThrows(r) ==
  /\ pc[r] = "update_processing"
  /\ Catch(r, hs[r], "database error")
  /\ tasks' = [tasks EXCEPT ![r] = SubSeq(@, 1, Len(@) - 1)]
  /\ UNCHANGED <<tokens, tokenIndex, tokenUsage, maxConcurrentPerToken, gt,
                 held, delivered, logs, released, calls, picks, cacheVars, hostVars, releases>>

UpdateCompletedThrows(r) ==
  /\ pc[r] = "update_completed"
  /\ Catch(r, hs[r], "database error")
  /\ tasks' = [tasks EXCEPT ![r] = SubSeq(@, 1, Len(@) - 1)]
  /\ UNCHANGED <<tokens, tokenIndex, tokenUsage, maxConcurrentPerToken, gt,
                 held, delivered, logs, released, calls, picks, cacheVars, hostVars, releases>>

\* "await db.addLog()" rejects: the generator throws out of its finally block.
AddLogThrows(r) ==
  /\ pc[r] = "addLog"
  /\ logs' = SelectSeq(logs, LAMBDA e : e.requestId # r)
  /\ pc' = [pc EXCEPT ![r] = "threw"]
  /\ UNCHANGED <<tokens, tokenIndex, tokenUsage, maxConcurrentPerToken, gt,
                 held, hs, frames, delivered, tasks, released, calls,
                 picks, cacheVars, hostVars, releases>>

\* ------------------------------- POST /v1/chat/completions, the streaming branch

\* What the transport hands to writer.write: `data: ${JSON.stringify(chunk)}\n\n`,
\* "data: [DONE]\n\n", or the serialized errorData of the catch block.
NoBody == [text |-> NULL, ref |-> NULL, finish_reason |-> NULL]
SseChunk(chunk) == [kind |-> "chunk", body |-> chunk]
SseDone == [kind |-> "done", body |-> NoBody]
SseError(message) ==
  [kind |-> "error", body |-> [NoBody EXCEPT !.ref = message]]

\* The transport of a request: where it is suspended, what its writer has written,
\* and the state of the writer's stream (none: no writer yet; writable, closing,
\* closed, errored).  A request starts in the route handler, before getWriter().
NoWire == [pc |-> "route", out |-> <<>>, writer |-> "none"]

\* const writer = ctx.response.body.getWriter(), on a context whose response body
\* is a stream: the for-await loop is entered.
StreamOpen(r) ==
  /\ wire[r].pc = "route"
  /\ wire' = [wire EXCEPT ![r].pc = "iter", ![r].writer = "writable"]
  /\ UNCHANGED <<coreVars, cacheVars, snapshot, timers, overrides>>

\* The same statement on the context as the route has it, whose response body
\* nothing has assigned: undefined.getWriter() throws a TypeError outside the try
\* block, before the first next(): the generator never starts.
StreamNoBody(r) ==
  /\ wire[r].pc = "route"
  /\ wire' = [wire EXCEPT ![r].pc = "threw"]
  /\ UNCHANGED <<coreVars, cacheVars, snapshot, timers, overrides>>

AtYield(r) == pc[r] \in {"yield_initial", "yield_final", "yield_error"}

\* The for-await loop has a chunk: writer.write(encoder.encode(data)) is awaited.
StreamWrite(r) ==
  /\ wire[r].pc = "iter"
  /\ AtYield(r)
  /\ Len(wire[r].out) < Len(frames[r])
  /\ wire' = [wire EXCEPT ![r].pc = "write"]
  /\ UNCHANGED <<coreVars, cacheVars, snapshot, timers, overrides>>

\* The write of a chunk resolves: the loop goes on to call next().
StreamWritten(r) ==
  /\ wire[r].pc = "write"
  /\ wire[r].writer = "writable"
  /\ wire' = [wire EXCEPT ![r].pc = "iter",
                          ![r].out = Append(@, SseChunk(frames[r][Len(frames[r])]))]
  /\ UNCHANGED <<coreVars, cacheVars, snapshot, timers, overrides>>

\* The loop calls next(): the first time, and then once the chunk it has is
\* written.
StreamNext(r) ==
  /\ wire[r].pc = "iter"
  /\ Len(wire[r].out) = Len(frames[r])
  /\ \/ HandlerStart(r)
     \/ HandlerCallUpstream(r)
     \/ HandlerFinally(r)

\* The write of a chunk rejects (the client is gone): the stream is errored, the
\* loop ends abruptly and calls generator.return(), which it awaits.  The
\* generator, suspended at its yield, resumes in a later block.
StreamWriteFails(r) ==
  /\ wire[r].pc = "write"
  /\ wire' = [wire EXCEPT ![r].pc = "return", ![r].writer = "errored"]
  /\ UNCHANGED <<coreVars, cacheVars, snapshot, timers, overrides>>

\* The generator resumes at its yield with the return completion: the finally
\* block runs.
StreamReturn(r) ==
  /\ wire[r].pc = "return"
  /\ AtYield(r)
  /\ RunFinally(r, pc[r] = "yield_initial")
  /\ UNCHANGED hostVars

\* catch: the iteration failed, by a rejected write once return() has settled or
\* by the generator throwing: writer.write of errorData is awaited.
StreamCatch(r) ==
  /\ \/ wire[r].pc = "return" /\ pc[r] \in {"done", "threw"}
     \/ wire[r].pc = "iter" /\ pc[r] = "threw"
  /\ wire' = [wire EXCEPT ![r].pc = "catch_write"]
  /\ UNCHANGED <<coreVars, cacheVars, snapshot, timers, overrides>>

\* The generator is done: the write of "data: [DONE]\n\n" is awaited.
StreamSentinel(r) ==
  /\ wire[r].pc = "iter"
  /\ pc[r] = "done"
  /\ wire' = [wire EXCEPT ![r].pc = "sentinel"]
  /\ UNCHANGED <<coreVars, cacheVars, snapshot, timers, overrides>>

\* The write of the sentinel resolves: writer.close() is awaited.
SentinelWritten(r) ==
  /\ wire[r].pc = "sentinel"
  /\ wire[r].writer = "writable"
  /\ wire' = [wire EXCEPT ![r].pc = "close", ![r].writer = "closing",
                          ![r].out = Append(@, SseDone)]
  /\ UNCHANGED <<coreVars, cacheVars, snapshot, timers, overrides>>

\* The write of the sentinel rejects: the catch block runs.
SentinelFails(r) ==
  /\ wire[r].pc = "sentinel"
  /\ wire' = [wire EXCEPT ![r].pc = "catch_write", ![r].writer = "errored"]
  /\ UNCHANGED <<coreVars, cacheVars, snapshot, timers, overrides>>

\* writer.close() of the try block resolves: the route handler returns.
StreamClosed(r) ==
  /\ wire[r].pc = "close"
  /\ wire' = [wire EXCEPT ![r].pc = "end", ![r].writer = "closed"]
  /\ UNCHANGED <<coreVars, cacheVars, snapshot, timers, overrides>>

\* writer.close() of the try block rejects: the catch block runs.
StreamCloseFails(r) ==
  /\ wire[r].pc = "close"
  /\ wire' = [wire EXCEPT ![r].pc = "catch_write", ![r].writer = "errored"]
  /\ UNCHANGED <<coreVars, cacheVars, snapshot, timers, overrides>>

\* catch: the write of errorData resolves (only a writable stream accepts a
\* write): writer.close() is awaited.
CatchWritten(r) ==
  /\ wire[r].pc = "catch_write"
  /\ wire[r].writer = "writable"
  /\ wire' = [wire EXCEPT ![r].pc = "catch_close", ![r].writer = "closing",
                          ![r].out = Append(@, SseError("database error"))]
  /\ UNCHANGED <<coreVars, cacheVars, snapshot, timers, overrides>>

\* catch: the write of errorData rejects: the route handler throws.
CatchWriteFails(r) ==
  /\ wire[r].pc = "catch_write"
  /\ wire' = [wire EXCEPT ![r].pc = "threw", ![r].writer = "errored"]
  /\ UNCHANGED <<coreVars, cacheVars, snapshot, timers, overrides>>

\* catch: writer.close() resolves or rejects.
CatchClosed(r) ==
  /\ wire[r].pc = "catch_close"
  /\ \/ wire' = [wire EXCEPT ![r].pc = "caught", ![r].writer = "closed"]
     \/ wire' = [wire EXCEPT ![r].pc = "threw", ![r].writer = "errored"]
  /\ UNCHANGED <<coreVars, cacheVars, snapshot, timers, overrides>>

\* ----------------------------------------------- other callers of the services

\* A caller that starts getToken only while no other getToken call is in progress.
InGetToken(r) == pc[r] \in {"gt_canUse", "gt_increment", "gt_ret"}

SeqGetToken(r) ==
  /\ \A q \in Procs : ~InGetToken(q)
  /\ CallerGetToken(r)

SeqRelease(r) ==
  /\ \A q \in Procs : ~InGetToken(q)
  /\ CallerRelease(r)

\* A caller that has released its token calls loadBalancer.releaseToken(token)
\* once more, on any tracked token.
ReleaseAgain(r, token) ==
  /\ pc[r] = "released"
  /\ \A q \in Procs : ~InGetToken(q)
  /\ token \in DOMAIN tokenUsage
  /\ tokenUsage' = decrementUsage(tokenUsage, token)
  /\ releases' = Append(releases,
                        [token |-> token,
                         signal |-> decrementUsageSignal(tokenUsage, token)])
  /\ pc' = [pc EXCEPT ![r] = "released_again"]
  /\ UNCHANGED <<tokens, tokenIndex, maxConcurrentPerToken, gt, held, hs, frames,
                 delivered, tasks, logs, released, calls, picks, cacheVars, hostVars>>

SetMaxConcurrentPerTokenLater(max) ==
  /\ maxConcurrentPerToken' = max
  /\ UNCHANGED <<tokens, tokenIndex, tokenUsage, pc, gt, held, hs, frames,
                 delivered, tasks, logs, released, calls, picks, cacheVars, hostVars,
                 releases>>

\* setMaxConcurrentPerToken(max)
SetMaxConcurrentPerToken(max) ==
  /\ maxConcurrentPerToken' = max
  /\ tokenUsage' = [t \in DOMAIN tokenUsage |-> [tokenUsage[t] EXCEPT !.max = max]]
  /\ UNCHANGED <<tokens, tokenIndex, pc, gt, held, hs, frames, delivered,
                 tasks, logs, released, calls, picks, cacheVars, hostVars, releases>>

\* The Map returned by getAllTokenUsage(): whether it was taken, whether its values
\* are still the objects in the manager's Map (initialize() clears that Map and
\* fills it with new objects), the values of its objects once they are not, and
\* the number of writes the observer made through it.
NoUsage == [t \in {} |-> [current |-> 0, max |-> 0]]
NoSnapshot == [taken |-> FALSE, shared |-> FALSE, objects |-> NoUsage, writes |-> 0]

\* The runtime's timers and the FileCache field that refers to one: the ids of the
\* intervals that are set, this.cleanupInterval (0: undefined), the number of
\* setInterval calls so far, and whether stopCleanupTask() has returned since the
\* last startCleanupTask().
NoTimers == [active |-> {}, cleanupInterval |-> 0, count |-> 0, stopped |-> FALSE]

\* The timers once initializeApp() has called fileCache.startCleanupTask()
StartedTimers == [active |-> {1}, cleanupInterval |-> 1, count |-> 1, stopped |-> FALSE]

\* Config as constructed: neither _cacheEnabled nor _cacheTimeout is set, and the
\* getters answer from the configuration file.
NoOverrides == [cacheEnabled |-> FALSE, cacheTimeout |-> FALSE]

\* What the observer reads in its Map
SnapshotReads ==
  IF snapshot.shared THEN tokenUsage ELSE snapshot.objects

\* this.tokenUsage.clear() as seen by the Map of an observer: the objects it
\* shared with the manager are its own from now on.
Detached(snap, usage) ==
  IF snap.shared THEN [snap EXCEPT !.shared = FALSE, !.objects = usage] ELSE snap

\* A direct call of tokenManager.getNextToken()
CallGetNextToken ==
  /\ Len(picks) < MaxPicks
  /\ picks' = Append(picks, getNextToken(tokens, tokenIndex))
  /\ tokenIndex' = getNextTokenIndex(tokens, tokenIndex)
  /\ UNCHANGED <<tokens, tokenUsage, maxConcurrentPerToken, pc, gt, held, hs,
                 frames, delivered, tasks, logs, released, calls, cacheVars, hostVars, releases>>

\* loadTokens(): this.tokens = await this.db.getAllTokens(), with the list the
\* database returns (the cursor and the usage counts are left as they are)
LoadTokens(list) ==
  /\ tokens' = list
  /\ UNCHANGED <<tokenIndex, tokenUsage, maxConcurrentPerToken, pc, gt, held, hs,
                 frames, delivered, tasks, logs, released, calls, picks,
                 cacheVars, hostVars, releases>>

\* addToken(name, token): db.addToken(name, token), whose result has enabled: true,
\* then loadTokens(): the pool becomes what db.getAllTokens() returns, which is
\* nothing when the database stores nothing (as the Database of the repository),
\* else the credentials it held (base) and then the new one.
AddToken(token, base, stores) ==
  /\ tokens' = IF stores
               THEN Append(base, [token |-> token, enabled |-> TRUE])
               ELSE <<>>
  /\ UNCHANGED <<tokenIndex, tokenUsage, maxConcurrentPerToken, pc, gt, held, hs,
                 frames, delivered, tasks, logs, released, calls, picks,
                 cacheVars, hostVars, releases>>

\* concurrencyManager.initialize(tokenManager.getTokens())
Initialize ==
  /\ tokenUsage' = initialize(tokens, maxConcurrentPerToken)
  /\ snapshot' = Detached(snapshot, tokenUsage)
  /\ UNCHANGED <<tokens, tokenIndex, maxConcurrentPerToken, pc, gt, held, hs,
                 frames, delivered, tasks, logs, released, calls, picks,
                 cacheVars, wire, timers, overrides, releases>>

\* getAllTokenUsage(): new Map(this.tokenUsage), a Map of its own whose values are
\* the usage objects of the manager.
GetAllTokenUsage ==
  /\ ~snapshot.taken
  /\ snapshot' = [snapshot EXCEPT !.taken = TRUE, !.shared = TRUE]
  /\ UNCHANGED <<coreVars, cacheVars, wire, timers, overrides>>

\* The observer assigns to a field of a value of its Map:
\* snapshot.get(token).current = value
WriteSnapshot(token, value) ==
  /\ snapshot.taken
  /\ snapshot.writes < MaxWrites
  /\ token \in DOMAIN SnapshotReads
  /\ IF snapshot.shared
     THEN /\ tokenUsage' = [tokenUsage EXCEPT ![token].current = value]
          /\ snapshot' = [snapshot EXCEPT !.writes = @ + 1]
     ELSE /\ tokenUsage' = tokenUsage
          /\ snapshot' = [snapshot EXCEPT !.writes = @ + 1,
                                          !.objects[token].current = value]
  /\ UNCHANGED <<tokens, tokenIndex, maxConcurrentPerToken, pc, gt, held, hs,
                 frames, delivered, tasks, logs, released, calls, picks,
                 cacheVars, wire, timers, overrides, releases>>

\* ------------------------------------------------------------ initial states

\* Pools of MaxTokens credentials, each enabled or not.  Token strings are stored
\* as given (no route or method validates them): the last one may be empty.
TokenLists ==
  { [k \in 1..MaxTokens |->
       [token |-> IF k = e THEN "" ELSE TokenNames[k], enabled |-> en[k]]] :
      en \in [1..MaxTokens -> BOOLEAN], e \in {0, MaxTokens} }

\* The elements of list at the positions of S, in order
SubList(list, S) ==
  [k \in 1..Cardinality(S) |->
     list[CHOOSE i \in S : Cardinality({j \in S : j < i}) = k - 1]]

\* What db.getAllTokens() may return: nothing (as the Database of the repository
\* does), or credentials of a pool in their order.
DbLists == {SubList(list, S) : list \in TokenLists, S \in SUBSET (1..MaxTokens)}

\* The FileCache as constructed, with the configuration defaults; no cache task.
InitNoCache ==
  /\ cacheEnabled = FALSE
  /\ isDenoDeploy = FALSE
  /\ cacheTimeout = DefaultCacheTimeout
  /\ cacheMap = <<>>
  /\ files = {}
  /\ now = 0
  /\ ct = <<>>

\* The services with no request yet: either as start-up leaves them (the pool
\* not loaded, the default budget, and the usage Map as constructed or built by
\* initialize() from the credentials of the database), or with the pool loaded,
\* setMaxConcurrentPerToken(b) and initialize(pool) done.
InitPool ==
  /\ InitNoCache
  /\ \/ /\ tokens = <<>>
        /\ maxConcurrentPerToken = DefaultMaxConcurrent
        /\ \E list \in {<<>>} \cup TokenLists :
             tokenUsage = initialize(list, maxConcurrentPerToken)
     \/ /\ tokens \in TokenLists
        /\ maxConcurrentPerToken \in 1..MaxBudget
        /\ tokenUsage = initialize(tokens, maxConcurrentPerToken)
  /\ logs = <<>>
  /\ picks = <<>>
  /\ releases = <<>>
  /\ snapshot = NoSnapshot
  /\ timers = NoTimers
  /\ overrides = NoOverrides

InitServices ==
  /\ InitPool
  /\ tokenIndex = 0

InitProcs(P, at) ==
  /\ pc = [r \in P |-> at]
  /\ gt = [r \in P |-> NoFrame]
  /\ held = [r \in P |-> NULL]
  /\ hs = [r \in P |-> NoLocals]
  /\ frames = [r \in P |-> <<>>]
  /\ delivered = [r \in P |-> <<>>]
  /\ tasks = [r \in P |-> <<>>]
  /\ released = [r \in P |-> <<>>]
  /\ calls = [r \in P |-> <<>>]
  /\ wire = [r \in P |-> NoWire]

\* ------------------------------- SpecLB: concurrent callers of the LoadBalancer

InitLB == InitServices /\ InitProcs(1..NumCallers, "idle")

NextLB ==
  \/ \E r \in Procs : CallerGetToken(r)
  \/ \E r \in Procs : GetTokenChecked(r)
  \/ \E r \in Procs : GetTokenIncremented(r)
  \/ \E r \in Procs : CallerGotToken(r)
  \/ \E r \in Procs : CallerRelease(r)

SpecLB == InitLB /\ [][NextLB]_vars

\* SpecBudget: the same callers, and setMaxConcurrentPerToken calls
NextBudget ==
  \/ NextLB
  \/ \E max \in 1..MaxBudget : SetMaxConcurrentPerToken(max)

SpecBudget == InitLB /\ [][NextBudget]_vars

\* SpecAcquire: overlapping getToken calls and nothing else (no release, so
\* every usage count only grows)
InitAcquire == InitServices /\ InitProcs(1..NumAcquirers, "idle")

NextAcquire ==
  \/ \E r \in Procs : CallerGetToken(r)
  \/ \E r \in Procs : GetTokenChecked(r)
  \/ \E r \in Procs : GetTokenIncremented(r)

SpecAcquire == InitAcquire /\ [][NextAcquire]_vars

\* SpecSeq: successive (never overlapping) getToken and releaseToken calls
NextSeq ==
  \/ \E r \in Procs : SeqGetToken(r)
  \/ \E r \in Procs : GetTokenChecked(r)
  \/ \E r \in Procs : GetTokenIncremented(r)
  \/ \E r \in Procs : CallerGotToken(r)
  \/ \E r \in Procs : SeqRelease(r)

SpecSeq == InitLB /\ [][NextSeq]_vars

\* SpecRelease: the same successive calls, and releases of tokens not held
NextRelease ==
  \/ NextSeq
  \/ \E r \in Procs, token \in DOMAIN tokenUsage : ReleaseAgain(r, token)

SpecRelease == InitLB /\ [][NextRelease]_vars

\* SpecInit: successive getToken and releaseToken calls, with the budget set and
\* the concurrency manager initialized again between them
NextInit ==
  \/ NextSeq
  \/ \E max \in 1..MaxBudget : SetMaxConcurrentPerToken(max)
  \/ Initialize

SpecInit == InitLB /\ [][NextInit]_vars

\* SpecReinit: successive getToken and releaseToken calls, with the concurrency
\* manager initialized again between them (the budget is not changed)
NextReinit ==
  \/ NextSeq
  \/ Initialize

SpecReinit == InitLB /\ [][NextReinit]_vars

\* SpecSnapshot: the same calls, and an observer that takes the usage Map once,
\* reads it and writes to it
InitSnapshot == InitServices /\ InitProcs(1..NumObserved, "idle")

NextSnapshot ==
  \/ NextInit
  \/ GetAllTokenUsage
  \/ \E token \in DOMAIN tokenUsage, value \in 0..MaxBudget :
       WriteSnapshot(token, value)

SpecSnapshot == InitSnapshot /\ [][NextSnapshot]_vars

\* SpecRR: successive getNextToken() calls on a fixed pool, from any cursor that
\* earlier calls on a pool of at most MaxTokens enabled credentials can leave
InitRR ==
  /\ InitPool
  /\ tokenIndex \in 0..(MaxTokens - 1)
  /\ InitProcs({}, "idle")

NextRR == CallGetNextToken

SpecRR == InitRR /\ [][NextRR]_vars

\* SpecReload: successive getNextToken() calls, with the pool reloaded between
\* them (credentials enabled and disabled)
NextReload ==
  \/ CallGetNextToken
  \/ \E list \in DbLists : LoadTokens(list)

SpecReload == InitRR /\ [][NextReload]_vars

\* SpecPool: successive getToken and releaseToken calls, with credentials added
\* and the pool reloaded between them
NextPool ==
  \/ NextSeq
  \/ \E token \in AddedTokens, stores \in BOOLEAN,
          base \in {list \in DbLists :
                     \A k \in 1..Len(list) : list[k].enabled /\ list[k].token # ""} :
       AddToken(token, base, stores)
  \/ \E list \in DbLists : LoadTokens(list)

InitPoolSeq == InitServices /\ InitProcs(1..NumPoolCallers, "idle")

SpecPool == InitPoolSeq /\ [][NextPool]_vars

\* -------------------------------------- Spec: concurrent chat-completion requests

Init == InitServices /\ InitProcs(1..NumRequests, "start")

Next ==
  \/ \E r \in Procs : HandlerStart(r)
  \/ \E r \in Procs : GetTokenChecked(r)
  \/ \E r \in Procs : GetTokenIncremented(r)
  \/ \E r \in Procs : HandlerGotToken(r)
  \/ \E r \in Procs : HandlerTaskAdded(r)
  \/ \E r \in Procs : HandlerYieldInitial(r)
  \/ \E r \in Procs : HandlerCallUpstream(r)
  \/ \E r \in Procs : UpstreamReturns(r)
  \/ \E r \in Procs : UpstreamThrows(r)
  \/ \E r \in Procs : HandlerYieldFinal(r)
  \/ \E r \in Procs : HandlerFinally(r)
  \/ \E r \in Procs : HandlerReleased(r)
  \/ \E r \in Procs : HandlerDone(r)

Spec == Init /\ [][Next]_vars

\* SpecFaults: the same requests with a persistence port whose calls may reject
NextFaults ==
  \/ Next
  \/ \E r \in Procs : AddTaskThrows(r)
  \/ \E r \in Procs : UpdateProcessingThrows(r)
  \/ \E r \in Procs : UpdateCompletedThrows(r)

SpecFaults == Init /\ [][NextFaults]_vars

\* SpecLive: the requests of SpecFaults under fair scheduling: the consumer keeps
\* iterating, the event loop resumes every settled await, and every upstream and
\* persistence call returns or fails.
RequestStep(r) ==
  \/ HandlerStart(r)
  \/ GetTokenChecked(r)
  \/ GetTokenIncremented(r)
  \/ HandlerGotToken(r)
  \/ HandlerTaskAdded(r) \/ AddTaskThrows(r)
  \/ HandlerYieldInitial(r) \/ UpdateProcessingThrows(r)
  \/ HandlerCallUpstream(r)
  \/ UpstreamReturns(r) \/ UpstreamThrows(r)
  \/ HandlerYieldFinal(r) \/ UpdateCompletedThrows(r)
  \/ HandlerFinally(r)
  \/ HandlerReleased(r)
  \/ HandlerDone(r)

SpecLive ==
  Init /\ [][NextFaults]_vars /\ \A r \in 1..NumRequests : WF_vars(RequestStep(r))

\* SpecAbandon: the same requests with a consumer that may stop iterating
NextAbandon ==
  \/ Next
  \/ \E r \in Procs : ConsumerReturns(r)

SpecAbandon == Init /\ [][NextAbandon]_vars

\* SpecStream: requests served by the streaming branch of the route, on
\* writers whose writes may reject and a persistence port whose addLog may reject
NextStream ==
  \/ \E r \in Procs : StreamOpen(r)
  \/ \E r \in Procs : StreamNoBody(r)
  \/ \E r \in Procs : GetTokenChecked(r)
  \/ \E r \in Procs : GetTokenIncremented(r)
  \/ \E r \in Procs : HandlerGotToken(r)
  \/ \E r \in Procs : HandlerTaskAdded(r)
  \/ \E r \in Procs : HandlerYieldInitial(r)
  \/ \E r \in Procs : UpstreamReturns(r)
  \/ \E r \in Procs : UpstreamThrows(r)
  \/ \E r \in Procs : HandlerYieldFinal(r)
  \/ \E r \in Procs : HandlerReleased(r)
  \/ \E r \in Procs : HandlerDone(r)
  \/ \E r \in Procs : AddLogThrows(r)
  \/ \E r \in Procs : StreamWrite(r)
  \/ \E r \in Procs : StreamWritten(r)
  \/ \E r \in Procs : StreamNext(r)
  \/ \E r \in Procs : StreamWriteFails(r)
  \/ \E r \in Procs : StreamReturn(r)
  \/ \E r \in Procs : StreamCatch(r)
  \/ \E r \in Procs : StreamSentinel(r)
  \/ \E r \in Procs : SentinelWritten(r)
  \/ \E r \in Procs : SentinelFails(r)
  \/ \E r \in Procs : StreamClosed(r)
  \/ \E r \in Procs : StreamCloseFails(r)
  \/ \E r \in Procs : CatchWritten(r)
  \/ \E r \in Procs : CatchWriteFails(r)
  \/ \E r \in Procs : CatchClosed(r)

InitStream == InitServices /\ InitProcs(1..NumStreams, "start")

SpecStream == InitStream /\ [][NextStream]_vars

\* ------------------------------------------------------------------ FileCache

\* Cache keys, as sequences of characters; AlphaNum is what [a-zA-Z0-9] matches
\* among the characters used.
Keys == {<<"a", "/", "b">>, <<"a", "_", "b">>}
AlphaNum == {"a", "b"}
NoKey == <<>>

\* The values a cache operation returns: a path, null (get), "" (set), nothing;
\* Thrown: the promise it returned rejects
NullPath == [kind |-> "null", name |-> <<>>, stamp |-> 0]
Thrown == [kind |-> "throw", name |-> <<>>, stamp |-> 0]
EmptyPath == [kind |-> "empty", name |-> <<>>, stamp |-> 0]
Void == [kind |-> "void", name |-> <<>>, stamp |-> 0]

CacheOffDeployOnly(enabled, deploy) == deploy

\* if (!config.cacheEnabled || this.isDenoDeploy)
CacheOff(enabled, deploy) == ~enabled \/ deploy

\* const timeoutMs = config.cacheTimeout * 1000
MsPerSecond == 1000
timeoutMs(timeout) == timeout * MsPerSecond

ExpiredInclusive(nowv, timestamp, timeout) == nowv - timestamp >= timeoutMs(timeout)

\* if (now - entry.timestamp > timeoutMs)
Expired(nowv, timestamp, timeout) == nowv - timestamp > timeoutMs(timeout)

\* key.replace(/[^a-zA-Z0-9]/g, "_")
Sanitize(key) ==
  [i \in DOMAIN key |-> IF key[i] \in AlphaNum THEN key[i] ELSE "_"]

\* set: join(Deno.cwd(), "cache", `${sanitized key}_${Date.now()}`)
Filename(key, nowv) == [kind |-> "path", name |-> Sanitize(key), stamp |-> nowv]

NewEntrySeconds(key, path, nowv) ==
  [key |-> key, path |-> path, timestamp |-> nowv \div MsPerSecond,
   accessCount |-> 1]

\* set: { path, url, timestamp: Date.now(), accessCount: 1 } (url is never read)
NewEntry(key, path, nowv) ==
  [key |-> key, path |-> path, timestamp |-> nowv, accessCount |-> 1]

NoEntry == [key |-> NoKey, path |-> NullPath, timestamp |-> 0, accessCount |-> 0]

\* Map: the position of key among the entries (0: none), get, set, delete
IndexOf(map, key) ==
  IF \E j \in 1..Len(map) : map[j].key = key
  THEN CHOOSE j \in 1..Len(map) : map[j].key = key
  ELSE 0

MapGet(map, key) ==
  IF IndexOf(map, key) = 0 THEN NoEntry ELSE map[IndexOf(map, key)]

MapSet(map, key, entry) ==
  IF IndexOf(map, key) = 0
  THEN Append(map, entry)
  ELSE [map EXCEPT ![IndexOf(map, key)] = entry]

MapDelete(map, key) ==
  LET j == IndexOf(map, key) IN
  IF j = 0 THEN map ELSE SubSeq(map, 1, j - 1) \o SubSeq(map, j + 1, Len(map))

\* getCacheStats().entries
getCacheStats(map) == [entries |-> Len(map)]

\* The locals of a cache task.  entries: getCacheStats().entries when the operation
\* was called; present: the file of the entry that get found existed then;
\* rejected: a file system call of the operation has rejected;
\* timeoutMs: cleanup's config.cacheTimeout * 1000 taken at its call, in seconds;
\* fresh: this set has returned and no operation was called since; prev: the task
\* whose set had just returned when this get was called (0: none).
IdleTask ==
  [op |-> "idle", pc |-> "idle", key |-> NoKey, path |-> NullPath, now |-> 0,
   stamp |-> 0, entry |-> NoEntry, statOk |-> FALSE, keysToDelete |-> <<>>,
   pos |-> 0, entries |-> 0, present |-> FALSE, rejected |-> FALSE,
   fresh |-> FALSE, prev |-> 0, ret |-> NullPath, timeoutMs |-> 0]

\* A Map iterator keeps its place when an entry is deleted: the iterator of a
\* cleanup pass that has passed pos entries has passed one less once the entry at
\* position j <= pos is deleted.
ShiftIter(t, j) ==
  IF j > 0 /\ t.pc \in {"cl_remove", "cl_removed"} /\ t.pos >= j
  THEN [t EXCEPT !.pos = @ - 1]
  ELSE t

RECURSIVE ShiftIterAll(_, _, _)
ShiftIterAll(t, map, keys) ==
  IF keys = <<>> THEN t
  ELSE ShiftIterAll(ShiftIter(t, IndexOf(map, Head(keys))),
                    MapDelete(map, Head(keys)), Tail(keys))

\* cleanup: for (const key of keysToDelete) this.cacheMap.delete(key)
RECURSIVE MapDeleteAll(_, _)
MapDeleteAll(map, keys) ==
  IF keys = <<>> THEN map
  ELSE MapDeleteAll(MapDelete(map, Head(keys)), Tail(keys))

\* The operation of a task with locals t returns value; the other locals are dead.
Return(t, value) ==
  [t EXCEPT !.pc = "ret", !.fresh = (t.op = "set"), !.ret = value, !.path = NullPath,
            !.statOk = FALSE, !.keysToDelete = <<>>, !.pos = 0, !.entries = 0,
            !.present = FALSE, !.timeoutMs = 0]

\* Task c gets the locals t; the entry at position j (0: none) was deleted.
PutTask(c, t, j) == [d \in CTasks |-> IF d = c THEN t ELSE ShiftIter(ct[d], j)]

\* Task c calls an operation and gets the locals t.
CallTask(c, t, j) ==
  [d \in CTasks |-> IF d = c THEN t
                    ELSE [ShiftIter(ct[d], j) EXCEPT !.fresh = FALSE]]

CalledTask(op, key) ==
  [IdleTask EXCEPT !.op = op, !.key = key, !.now = now,
                   !.entries = getCacheStats(cacheMap).entries,
                   !.present = MapGet(cacheMap, key).path \in files,
                   !.prev = IF op = "get" /\ \E d \in CTasks : ct[d].fresh
                            THEN CHOOSE d \in CTasks : ct[d].fresh ELSE 0]

\* get(key) is called: up to "await Deno.remove" or "await Deno.stat", or to a
\* return of null.
CacheGet(c, key) ==
  /\ ct[c].pc = "idle"
  /\ LET e == MapGet(cacheMap, key)
         j == IndexOf(cacheMap, key)
         t == CalledTask("get", key)
     IN  IF CacheOff(cacheEnabled, isDenoDeploy) \/ j = 0
         THEN /\ ct' = CallTask(c, Return(t, NullPath), 0)
              /\ cacheMap' = cacheMap
         ELSE IF Expired(now, e.timestamp, cacheTimeout)
         THEN /\ cacheMap' = MapDelete(cacheMap, key)
              /\ ct' = CallTask(c, [t EXCEPT !.pc = "get_remove", !.entry = e,
                                            !.path = e.path], j)
         ELSE /\ e.accessCount < MaxAccess
              /\ cacheMap' = MapSet(cacheMap, key,
                                    [e EXCEPT !.accessCount = @ + 1])
              /\ ct' = CallTask(c, [t EXCEPT !.pc = "get_stat", !.entry = e,
                                            !.path = e.path], 0)
  /\ UNCHANGED <<cacheEnabled, isDenoDeploy, cacheTimeout, files, now, coreVars, hostVars>>

\* set(key, url, data) is called: up to "await Deno.writeFile", or returns "".
CacheSet(c, key) ==
  /\ ct[c].pc = "idle"
  /\ LET t == CalledTask("set", key) IN
     IF CacheOff(cacheEnabled, isDenoDeploy)
     THEN ct' = CallTask(c, Return(t, EmptyPath), 0)
     ELSE ct' = CallTask(c, [t EXCEPT !.pc = "set_write",
                                     !.path = Filename(key, now)], 0)
  /\ UNCHANGED <<cacheEnabled, isDenoDeploy, cacheTimeout, cacheMap, files, now,
                 coreVars, hostVars>>

\* The position of the first expired entry after position pos (0: none)
NextExpired(map, pos, nowv, timeout) ==
  LET S == {j \in (pos + 1)..Len(map) : Expired(nowv, map[j].timestamp, timeout)}
  IN  IF S = {} THEN 0 ELSE CHOOSE j \in S : \A k \in S : j <= k

\* cleanup: the first loop from the entry after position pos up to the next
\* "await Deno.remove", or, when no expired entry is left, the second loop and the
\* return.  called: this is the call of cleanup, not a resumption.
CleanupScan(c, t, pos, called) ==
  LET j == NextExpired(cacheMap, pos, t.now, t.timeoutMs)
      Other(u) == IF called THEN [u EXCEPT !.fresh = FALSE] ELSE u
  IN
  IF j # 0
  THEN /\ ct' = [d \in CTasks |->
                   IF d = c
                   THEN [t EXCEPT !.pc = "cl_remove", !.pos = j,
                                  !.path = cacheMap[j].path,
                                  !.keysToDelete = Append(@, cacheMap[j].key)]
                   ELSE Other(ct[d])]
       /\ cacheMap' = cacheMap
  ELSE /\ cacheMap' = MapDeleteAll(cacheMap, t.keysToDelete)
       /\ ct' = [d \in CTasks |->
                   IF d = c
                   THEN Return(t, Void)
                   ELSE Other(ShiftIterAll(ct[d], cacheMap, t.keysToDelete))]

\* cleanup() is called.
CacheCleanup(c) ==
  /\ ct[c].pc = "idle"
  /\ LET t == CalledTask("cleanup", NoKey) IN
     IF CacheOff(cacheEnabled, isDenoDeploy)
     THEN /\ ct' = CallTask(c, Return(t, Void), 0)
          /\ cacheMap' = cacheMap
     ELSE CleanupScan(c, [t EXCEPT !.timeoutMs = cacheTimeout], 0, TRUE)
  /\ UNCHANGED <<cacheEnabled, isDenoDeploy, cacheTimeout, files, now, coreVars, hostVars>>

\* Deno.remove(path) is performed (on a missing file it rejects, which get and
\* cleanup catch and ignore).
RemoveIo(c) ==
  /\ ct[c].pc \in {"get_remove", "cl_remove"}
  /\ files' = files \ {ct[c].path}
  /\ ct' = [ct EXCEPT ![c].pc = IF @ = "get_remove" THEN "get_removed"
                                ELSE "cl_removed"]
  /\ UNCHANGED <<cacheEnabled, isDenoDeploy, cacheTimeout, cacheMap, now,
                 coreVars, hostVars>>

\* Deno.stat(path) is performed.
StatIo(c) ==
  /\ ct[c].pc = "get_stat"
  /\ ct' = [ct EXCEPT ![c].pc = "get_stated", ![c].statOk = ct[c].path \in files]
  /\ UNCHANGED <<cacheEnabled, isDenoDeploy, cacheTimeout, cacheMap, files, now,
                 coreVars, hostVars>>

\* Deno.writeFile(path, data) is performed.
WriteIo(c) ==
  /\ ct[c].pc = "set_write"
  /\ files' = files \cup {ct[c].path}
  /\ ct' = [ct EXCEPT ![c].pc = "set_written"]
  /\ UNCHANGED <<cacheEnabled, isDenoDeploy, cacheTimeout, cacheMap, now,
                 coreVars, hostVars>>

\* Deno.remove(path) rejects although the file is there (say, for want of
\* permission): get and cleanup catch and ignore it.
RemoveIoFails(c) ==
  /\ ct[c].pc \in {"get_remove", "cl_remove"}
  /\ ct[c].path \in files
  /\ ct' = [ct EXCEPT ![c].pc = IF @ = "get_remove" THEN "get_removed"
                                ELSE "cl_removed",
                      ![c].rejected = TRUE]
  /\ UNCHANGED <<cacheEnabled, isDenoDeploy, cacheTimeout, cacheMap, files, now,
                 coreVars, hostVars>>

\* Deno.stat(path) rejects although the file is there.
StatIoFails(c) ==
  /\ ct[c].pc = "get_stat"
  /\ ct[c].path \in files
  /\ ct' = [ct EXCEPT ![c].pc = "get_stated", ![c].statOk = FALSE,
                      ![c].rejected = TRUE]
  /\ UNCHANGED <<cacheEnabled, isDenoDeploy, cacheTimeout, cacheMap, files, now,
                 coreVars, hostVars>>

\* Deno.writeFile(path, data) rejects (no cache directory, disk full): set has no
\* try around it, so the promise set returned rejects.
WriteIoFails(c) ==
  /\ ct[c].pc = "set_write"
  /\ ct' = [ct EXCEPT ![c] = Return([@ EXCEPT !.rejected = TRUE], Thrown)]
  /\ UNCHANGED <<cacheEnabled, isDenoDeploy, cacheTimeout, cacheMap, files, now,
                 coreVars, hostVars>>

\* get: "await Deno.remove" resumes: return null.
GetRemoved(c) ==
  /\ ct[c].pc = "get_removed"
  /\ ct' = [ct EXCEPT ![c] = Return(@, NullPath)]
  /\ UNCHANGED <<cacheEnabled, isDenoDeploy, cacheTimeout, cacheMap, files, now,
                 coreVars, hostVars>>

\* get: "await Deno.stat" resumes: return entry.path, or delete the key and return
\* null.
GetStated(c) ==
  /\ ct[c].pc = "get_stated"
  /\ IF ct[c].statOk
     THEN /\ ct' = [ct EXCEPT ![c] = Return(@, ct[c].path)]
          /\ cacheMap' = cacheMap
     ELSE /\ cacheMap' = MapDelete(cacheMap, ct[c].key)
          /\ ct' = PutTask(c, Return(ct[c], NullPath),
                           IndexOf(cacheMap, ct[c].key))
  /\ UNCHANGED <<cacheEnabled, isDenoDeploy, cacheTimeout, files, now, coreVars, hostVars>>

\* set: "await Deno.writeFile" resumes: the entry is registered, return path.
SetWritten(c) ==
  /\ ct[c].pc = "set_written"
  /\ cacheMap' = MapSet(cacheMap, ct[c].key, NewEntry(ct[c].key, ct[c].path, now))
  /\ ct' = [ct EXCEPT ![c] = Return([@ EXCEPT !.stamp = now], ct[c].path)]
  /\ UNCHANGED <<cacheEnabled, isDenoDeploy, cacheTimeout, files, now, coreVars, hostVars>>

CleanupRemovedAborts(c) ==
  /\ ct[c].pc = "cl_removed"
  /\ IF ct[c].rejected
     THEN /\ ct' = [ct EXCEPT ![c] = Return(@, Void)]
          /\ cacheMap' = cacheMap
     ELSE CleanupScan(c, ct[c], ct[c].pos, FALSE)
  /\ UNCHANGED <<cacheEnabled, isDenoDeploy, cacheTimeout, files, now, coreVars, hostVars>>

\* cleanup: "await Deno.remove" resumes: the first loop goes on.
CleanupRemoved(c) ==
  /\ ct[c].pc = "cl_removed"
  /\ CleanupScan(c, ct[c], ct[c].pos, FALSE)
  /\ UNCHANGED <<cacheEnabled, isDenoDeploy, cacheTimeout, files, now, coreVars, hostVars>>

\* The caller of the operation has its result.
CacheReturned(c) ==
  /\ ct[c].pc = "ret"
  /\ ct' = [ct EXCEPT ![c] = IdleTask]
  /\ UNCHANGED <<cacheEnabled, isDenoDeploy, cacheTimeout, cacheMap, files, now,
                 coreVars, hostVars>>

\* startCleanupTask(): this.cleanupInterval = setInterval(callback, 3600000)
StartCleanupTask ==
  /\ timers.count < MaxTimers
  /\ timers' = [active |-> timers.active \cup {timers.count + 1},
                cleanupInterval |-> timers.count + 1,
                count |-> timers.count + 1,
                stopped |-> FALSE]
  /\ UNCHANGED <<coreVars, cacheVars, wire, snapshot, overrides>>

\* stopCleanupTask(): if (this.cleanupInterval) clearInterval(this.cleanupInterval)
StopCleanupTask ==
  /\ timers' = [timers EXCEPT
                  !.active = IF timers.cleanupInterval # 0
                             THEN @ \ {timers.cleanupInterval} ELSE @,
                  !.stopped = TRUE]
  /\ UNCHANGED <<coreVars, cacheVars, wire, snapshot, overrides>>

\* An interval that is set comes due: its callback calls this.cleanup(), a sweep
\* pass (whether or not an earlier pass is still running).
TimerFires(id, c) ==
  /\ id \in timers.active
  /\ CacheCleanup(c)

\* A second passes.
Tick ==
  /\ now < MaxTime * MsPerSecond
  /\ now' = now + MsPerSecond
  /\ UNCHANGED <<cacheEnabled, isDenoDeploy, cacheTimeout, cacheMap, files, ct,
                 coreVars, hostVars>>

\* A file of the cache directory is removed from outside the program.
StorageLoss ==
  /\ \E p \in files : files' = files \ {p}
  /\ UNCHANGED <<cacheEnabled, isDenoDeploy, cacheTimeout, cacheMap, now, ct,
                 coreVars, hostVars>>

\* config.cacheEnabled = value
SetCacheEnabled(value) ==
  /\ cacheEnabled' = value
  /\ overrides' = [overrides EXCEPT !.cacheEnabled = TRUE]
  /\ UNCHANGED <<isDenoDeploy, cacheTimeout, cacheMap, files, now, ct, coreVars,
                 wire, snapshot, timers>>

\* config.cacheTimeout = value
SetCacheTimeout(value) ==
  /\ cacheTimeout' = value
  /\ overrides' = [overrides EXCEPT !.cacheTimeout = TRUE]
  /\ UNCHANGED <<cacheEnabled, isDenoDeploy, cacheMap, files, now, ct, coreVars,
                 wire, snapshot, timers>>

\* The cache sections a caller may pass or a configuration file may hold: each of
\* enabled and timeout is defined or not.
CacheSections ==
  [hasEnabled : BOOLEAN, enabled : BOOLEAN, hasTimeout : BOOLEAN, timeout : 0..MaxTimeout]

\* Database.initializeCacheConfig(cacheConfig): each setting that is defined is
\* assigned through its setter; no await lies between the two.
InitializeCacheConfig(cacheConfig) ==
  /\ cacheEnabled' = IF cacheConfig.hasEnabled THEN cacheConfig.enabled ELSE cacheEnabled
  /\ cacheTimeout' = IF cacheConfig.hasTimeout THEN cacheConfig.timeout ELSE cacheTimeout
  /\ overrides' = [cacheEnabled |-> overrides.cacheEnabled \/ cacheConfig.hasEnabled,
                   cacheTimeout |-> overrides.cacheTimeout \/ cacheConfig.hasTimeout]
  /\ UNCHANGED <<isDenoDeploy, cacheMap, files, now, ct, coreVars, wire, snapshot, timers>>

\* Config.reloadConfig(): this._config is read again from the file, whose cache
\* section is file; a getter answers from it while its own field is not set
\* (enabled defaults to false; the default timeout is the one the file had at
\* construction when it names none).
ReloadConfig(file) ==
  /\ cacheEnabled' = IF overrides.cacheEnabled THEN cacheEnabled
                     ELSE file.hasEnabled /\ file.enabled
  /\ cacheTimeout' = IF overrides.cacheTimeout THEN cacheTimeout
                     ELSE IF file.hasTimeout THEN file.timeout ELSE DefaultCacheTimeout
  /\ UNCHANGED <<isDenoDeploy, cacheMap, files, now, ct, coreVars, hostVars>>

\* No cache operation is in progress.
Quiet == \A c \in CTasks : ct[c].pc \in {"idle", "ret"}

\* The services with an empty pool (what Database.getAllTokens returns) and a
\* FileCache under any configuration.
InitCacheTasks(n, T) ==
  /\ tokens = <<>>
  /\ tokenIndex = 0
  /\ maxConcurrentPerToken = DefaultMaxConcurrent
  /\ tokenUsage = initialize(tokens, maxConcurrentPerToken)
  /\ logs = <<>>
  /\ picks = <<>>
  /\ releases = <<>>
  /\ snapshot = NoSnapshot
  /\ timers \in T
  /\ overrides = NoOverrides
  /\ InitProcs({}, "idle")
  /\ cacheEnabled \in BOOLEAN
  /\ isDenoDeploy \in BOOLEAN
  /\ cacheTimeout \in 0..MaxTimeout
  /\ cacheMap = <<>>
  /\ files = {}
  /\ now = 0
  /\ ct = [c \in 1..n |-> IdleTask]

InitCache == InitCacheTasks(NumCacheTasks, {NoTimers})

\* SpecCache: cache operations that interleave at their awaits, on storage that
\* nothing else touches
NextCache ==
  \/ \E c \in CTasks, key \in Keys : CacheGet(c, key)
  \/ \E c \in CTasks, key \in Keys : CacheSet(c, key)
  \/ \E c \in CTasks : CacheCleanup(c)
  \/ \E c \in CTasks : RemoveIo(c)
  \/ \E c \in CTasks : StatIo(c)
  \/ \E c \in CTasks : WriteIo(c)
  \/ \E c \in CTasks : GetRemoved(c)
  \/ \E c \in CTasks : GetStated(c)
  \/ \E c \in CTasks : SetWritten(c)
  \/ \E c \in CTasks : CleanupRemoved(c)
  \/ \E c \in CTasks : CacheReturned(c)
  \/ Tick

SpecCache == InitCache /\ [][NextCache]_vars

\* SpecSetGet: cache operations one at a time, on storage that nothing else touches
NextSetGet ==
  \/ \E c \in CTasks, key \in Keys : Quiet /\ CacheGet(c, key)
  \/ \E c \in CTasks, key \in Keys : Quiet /\ CacheSet(c, key)
  \/ \E c \in CTasks : Quiet /\ CacheCleanup(c)
  \/ \E c \in CTasks : RemoveIo(c)
  \/ \E c \in CTasks : StatIo(c)
  \/ \E c \in CTasks : WriteIo(c)
  \/ \E c \in CTasks : GetRemoved(c)
  \/ \E c \in CTasks : GetStated(c)
  \/ \E c \in CTasks : SetWritten(c)
  \/ \E c \in CTasks : CleanupRemoved(c)
  \/ \E c \in CTasks : CacheReturned(c)
  \/ Tick

SpecSetGet == InitCache /\ [][NextSetGet]_vars

\* SpecTimers: set() calls one at a time, the cleanup task started and stopped, and
\* the sweep passes that the interval timers run
NextTimers ==
  \/ StartCleanupTask
  \/ StopCleanupTask
  \/ \E id \in 1..MaxTimers, c \in CTasks : TimerFires(id, c)
  \/ \E c \in CTasks, key \in Keys : Quiet /\ CacheSet(c, key)
  \/ \E c \in CTasks : RemoveIo(c)
  \/ \E c \in CTasks : WriteIo(c)
  \/ \E c \in CTasks : SetWritten(c)
  \/ \E c \in CTasks : CleanupRemoved(c)
  \/ \E c \in CTasks : CacheReturned(c)
  \/ Tick

\* The application before or after the startCleanupTask() of its start-up
InitTimers == InitCacheTasks(NumCacheTasks, {NoTimers, StartedTimers})

SpecTimers == InitTimers /\ [][NextTimers]_vars

\* SpecCacheSeq: cache operations one at a time; files may be lost between them
NextCacheSeq ==
  \/ NextSetGet
  \/ Quiet /\ StorageLoss

SpecCacheSeq == InitCache /\ [][NextCacheSeq]_vars

\* SpecCacheFaults: cache operations one at a time, on storage whose calls may
\* reject
NextCacheFaults ==
  \/ NextSetGet
  \/ \E c \in CTasks : RemoveIoFails(c)
  \/ \E c \in CTasks : StatIoFails(c)
  \/ \E c \in CTasks : WriteIoFails(c)

SpecCacheFaults == InitCache /\ [][NextCacheFaults]_vars

\* SpecCacheConfig: cache operations one at a time, and the cache configuration
\* changed between them or while one waits
NextCacheConfig ==
  \/ NextSetGet
  \/ \E value \in BOOLEAN : Quiet /\ SetCacheEnabled(value)
  \/ \E value \in 0..MaxTimeout : SetCacheTimeout(value)
  \/ \E cacheConfig \in CacheSections : Quiet /\ InitializeCacheConfig(cacheConfig)
  \/ \E file \in CacheSections : Quiet /\ ReloadConfig(file)

InitCacheConfig == InitCacheTasks(NumConfigTasks, {NoTimers})

SpecCacheConfig == InitCacheConfig /\ [][NextCacheConfig]_vars

\* ------------------------------------------------------------------ properties

\* The callers that hold an admission on credential t: the increment for them is
\* done and they have not released it.
HolderOf(t) ==
  {r \in Procs : \/ pc[r] = "gt_increment" /\ gt[r].cand = t
                 \/ pc[r] = "gt_ret" /\ gt[r].ret = t
                 \/ pc[r] = "holding" /\ held[r] = t}

AllHolders == UNION {HolderOf(t) : t \in DOMAIN tokenUsage}

\* C1: for every credential, at all times 0 <= inUse <= budget, under any
\* interleaving of getToken, releaseToken and setMaxConcurrentPerToken calls.
C1_InUseWithinBudget ==
  \A t \in DOMAIN tokenUsage :
    /\ 0 <= tokenUsage[t].current
    /\ tokenUsage[t].current <= tokenUsage[t].max

\* C2: admission is an atomic check-and-increment: concurrent getToken calls never
\* both succeed on the last unit of a credential, so a credential never has more
\* admitted holders than its budget.
C2_NoDoubleAdmission ==
  \A t \in DOMAIN tokenUsage : Cardinality(HolderOf(t)) <= tokenUsage[t].max

\* C6: getToken returns null only if no enabled credential can be admitted; it
\* never returns null while an enabled credential has inUse < budget, also when
\* concurrent getToken calls advance the shared cursor.
C6_NullOnlyWhenFull ==
  \A r \in Procs :
    (pc[r] = "gt_ret" /\ gt[r].ret = NULL) =>
      \A t \in EnabledIds(tokens) : ~canUseToken(tokenUsage, t)

\* The pool of the scenario of C7: three enabled credentials of budget 1.
ThreeOfBudgetOne ==
  /\ getTokensCount(tokens) = 3
  /\ Len(tokens) = 3
  /\ \A t \in DOMAIN tokenUsage : tokenUsage[t].max = 1

\* C7: with three enabled credentials of budget 1, concurrent requests are admitted
\* on pairwise distinct credentials and no more than three are admitted at a time
\* (a fourth concurrent request gets no capacity).
C7_ThreeAdmittedFourthRefused ==
  ThreeOfBudgetOne =>
    /\ \A t \in DOMAIN tokenUsage : Cardinality(HolderOf(t)) <= 1
    /\ Cardinality(AllHolders) <= 3

\* C8: for a credential of budget B, successive (non-overlapping) acquires succeed
\* exactly while fewer than B admissions are held: inUse counts the admissions
\* held, it never exceeds B, canUseToken is true exactly when fewer than B are
\* held (so it is false after B acquires and true again after one release), and a
\* getToken call returns null only when every enabled credential holds B.
C8_BudgetManyThenRefused ==
  /\ \A t \in DOMAIN tokenUsage :
       /\ tokenUsage[t].current = Cardinality(HolderOf(t))
       /\ Cardinality(HolderOf(t)) <= tokenUsage[t].max
       /\ canUseToken(tokenUsage, t) <=> Cardinality(HolderOf(t)) < tokenUsage[t].max
  /\ \A r \in Procs :
       (pc[r] = "gt_ret" /\ gt[r].ret = NULL) =>
         \A t \in EnabledIds(tokens) :
           Cardinality(HolderOf(t)) = tokenUsage[t].max

\* Budget 2, one enabled credential: two callers were admitted, a third was
\* refused, then one released and the credential can be admitted again.
C8_Witness ==
  /\ maxConcurrentPerToken = 2
  /\ \E t \in EnabledIds(tokens) :
       /\ EnabledIds(tokens) = {t}
       /\ Cardinality(HolderOf(t)) = 1
       /\ canUseToken(tokenUsage, t)
       /\ \E r, q \in Procs : pc[r] = "refused" /\ pc[q] = "released"

\* The credential after t in the list of enabled credentials, cyclically.
NextEnabled(t) ==
  LET en == enabledTokens(tokens)
      k == CHOOSE j \in 1..Len(en) : en[j].token = t
  IN  en[(k % Len(en)) + 1].token

\* C9: for a fixed set of N >= 1 enabled credentials, successive getNextToken()
\* calls return enabled credentials in list order from the cursor, cyclically: N
\* consecutive calls return every enabled credential exactly once, and the call
\* after them returns the first of them again.
C9_RoundRobin ==
  LET N == getTokensCount(tokens) IN
  N >= 1 =>
    \A j \in 1..Len(picks) :
      /\ picks[j] \in EnabledIds(tokens)
      /\ j + 1 <= Len(picks) => picks[j + 1] = NextEnabled(picks[j])
      /\ j + N - 1 <= Len(picks) =>
           /\ {picks[i] : i \in j..(j + N - 1)} = EnabledIds(tokens)
           /\ \A a, b \in j..(j + N - 1) : a # b => picks[a] # picks[b]
      /\ j + N <= Len(picks) => picks[j + N] = picks[j]

\* Three enabled credentials and four calls: the fourth returned the first again.
C9_Witness ==
  /\ getTokensCount(tokens) = 3
  /\ Len(picks) >= 4
  /\ picks[4] = picks[1]
  /\ picks[1] # picks[2]

\* The getToken call of request r incremented a credential's usage for it.
Acquired(r) == gt[r].ret # NULL

\* C3: on every exit path of the handler the credential acquired for the request is
\* released exactly once, and releaseToken is not called when none was acquired.
C3_ReleasedExactlyOnce ==
  \A r \in Procs :
    /\ Len(released[r]) <= 1
    /\ released[r] # <<>> => Acquired(r) /\ released[r][1] = gt[r].ret
    /\ (pc[r] = "done" /\ Acquired(r)) => Len(released[r]) = 1

\* The log entries of request r
LogsOf(r) == SelectSeq(logs, LAMBDA l : l.requestId = r)

\* C4: every request appends exactly one log entry, on success and on failure:
\* never two, and one when the handler is done.
C4_ExactlyOneLog ==
  \A r \in Procs :
    /\ Len(LogsOf(r)) <= 1
    /\ pc[r] = "done" => Len(LogsOf(r)) = 1

\* Two requests are done, one logged "completed" and one logged "failed".
C4_Witness ==
  /\ \A r \in Procs : pc[r] = "done"
  /\ \E r, q \in Procs :
       /\ LogsOf(r) # <<>> /\ LogsOf(r)[1].status = "completed"
       /\ LogsOf(r)[1].hasResult
       /\ LogsOf(q) # <<>> /\ LogsOf(q)[1].status = "failed"

\* A terminal frame carries the finish marker.
Terminal(f) == f.finish_reason = "stop"

TerminalCount(fs) == Cardinality({k \in 1..Len(fs) : Terminal(fs[k])})

\* C5: a request emits exactly one terminal frame, the consumer receives the frames
\* in emission order, and nothing is emitted after the terminal frame.
C5_OneTerminalFrameLast ==
  \A r \in Procs :
    /\ TerminalCount(frames[r]) <= 1
    /\ \A k \in 1..Len(frames[r]) : Terminal(frames[r][k]) => k = Len(frames[r])
    /\ Len(delivered[r]) <= Len(frames[r])
    /\ delivered[r] = SubSeq(frames[r], 1, Len(delivered[r]))
    /\ pc[r] \in {"releaseToken", "addLog", "done"} =>
         /\ TerminalCount(frames[r]) = 1
         /\ delivered[r] = frames[r]

\* A request that failed upstream is done: its initial frame, then one error frame,
\* both delivered; another is done with its final frame.
C5_Witness ==
  \E r, q \in Procs :
    /\ pc[r] = "done" /\ pc[q] = "done"
    /\ Len(frames[r]) = 2 /\ frames[r][2].text = "Error"
    /\ delivered[r] = frames[r]
    /\ Len(frames[q]) = 2 /\ frames[q][2].text = "Generation complete"
    /\ delivered[q] = frames[q]

\* C10: when the upstream call returns a URL, the task was written PENDING, then
\* PROCESSING, then COMPLETED with resultUrl equal to that URL, and the terminal
\* frame carries the same URL.
C10_SuccessCompletesTask ==
  \A r \in Procs :
    (calls[r] # <<>> /\ calls[r][1].result \in Urls) =>
      LET url == calls[r][1].result IN
      /\ tasks[r] = <<[status |-> "pending", resultUrl |-> NULL],
                      [status |-> "processing", resultUrl |-> NULL],
                      [status |-> "completed", resultUrl |-> url]>>
      /\ pc[r] \in {"update_completed", "yield_final", "releaseToken",
                    "addLog", "done"}
      /\ pc[r] # "update_completed" =>
           /\ Terminal(frames[r][Len(frames[r])])
           /\ frames[r][Len(frames[r])].ref = url
           /\ frames[r][Len(frames[r])].text = "Generation complete"

\* A request is done after an image-to-video call that returned a URL.
C10_Witness ==
  \E r \in Procs :
    /\ pc[r] = "done"
    /\ calls[r] # <<>>
    /\ calls[r][1].op = "generateVideoFromImage"
    /\ calls[r][1].result \in Urls
    /\ delivered[r][2].ref = calls[r][1].result

\* The last write to the task record of request r
LastTask(r) == tasks[r][Len(tasks[r])]

\* C11: when the upstream call fails after the task record was created, the task is
\* moved to "failed": no task is left pending or processing once its request has
\* finished.
C11_FailedTaskRecorded ==
  \A r \in Procs :
    (pc[r] = "done" /\ tasks[r] # <<>>) =>
      /\ LastTask(r).status \in {"completed", "failed"}
      /\ (calls[r] # <<>> /\ calls[r][1].result = "thrown") =>
           LastTask(r).status = "failed"

\* The position of a status on the path pending -> processing -> terminal
Rank(status) ==
  CASE status = "pending" -> 0
    [] status = "processing" -> 1
    [] status \in {"completed", "failed"} -> 2

\* C12: the statuses written to a task only move forward along pending ->
\* processing -> {completed | failed}: the first is pending, every later write has
\* a higher rank than the one before, so none follows a terminal status.
C12_StatusForward ==
  \A r \in Procs :
    /\ tasks[r] # <<>> => tasks[r][1].status = "pending"
    /\ \A k \in 1..(Len(tasks[r]) - 1) :
         Rank(tasks[r][k].status) < Rank(tasks[r][k + 1].status)

\* A request is done whose task went through all three writes.
C12_Witness ==
  \E r \in Procs :
    /\ pc[r] = "done"
    /\ Len(tasks[r]) = 3
    /\ LastTask(r).status = "completed"

\* C13: when getToken returns null the request creates no task, makes no upstream
\* call, calls no release, emits the error frame as its only frame, and appends one
\* log entry without a credential.
C13_NoCapacityPath ==
  \A r \in Procs :
    (gt[r].ret = NULL
       /\ pc[r] \in {"gt_ret", "yield_error", "releaseToken", "addLog", "done"}) =>
      /\ tasks[r] = <<>>
      /\ calls[r] = <<>>
      /\ released[r] = <<>>
      /\ pc[r] # "releaseToken"
      /\ pc[r] # "gt_ret" => frames[r] = <<ErrorFrame("No available tokens")>>
      /\ pc[r] \in {"addLog", "done"} =>
           /\ delivered[r] = frames[r]
           /\ Len(LogsOf(r)) = 1
           /\ LogsOf(r)[1].tokenUsed = NULL
           /\ LogsOf(r)[1].status = "failed"

\* A request was refused and is done while the other request is inside its upstream
\* call with the only unit of the only enabled credential.
C13_Witness ==
  \E r, q \in Procs :
    /\ pc[r] = "done" /\ gt[r].ret = NULL
    /\ pc[q] = "upstream"
    /\ EnabledIds(tokens) = {hs[q].tokenUsed}
    /\ ~canUseToken(tokenUsage, hs[q].tokenUsed)

\* C14: a request naming a model that is not in MODEL_CONFIG makes no upstream call
\* and the credential acquired for it is released (once), so that its usage count
\* goes back by the one unit the request took.
C14_UnknownModelReleases ==
  \A r \in Procs :
    (pc[r] # "start" /\ hs[r].request.model \notin DOMAIN MODEL_CONFIG) =>
      /\ calls[r] = <<>>
      /\ (pc[r] = "done" /\ Acquired(r)) => released[r] = <<gt[r].ret>>

\* C19: when the consumer stops iterating after any emitted frame, the finally block
\* still runs to its end: the acquired credential is released exactly once and
\* exactly one log entry is appended.
C19_AbandonedStillFinalized ==
  \A r \in Procs :
    (pc[r] = "done" /\ frames[r] # <<>> /\ delivered[r] = frames[r]) =>
      /\ Acquired(r) => released[r] = <<gt[r].ret>>
      /\ ~Acquired(r) => released[r] = <<>>
      /\ Len(LogsOf(r)) = 1

\* The requests inside their upstream call with credential t
InUpstream(t) == {r \in Procs : pc[r] = "upstream" /\ hs[r].tokenUsed = t}

\* C20: a request inside its upstream call with credential c holds a unit of c: the
\* usage count of c is at least the number of requests inside an upstream call with
\* c, and no release was made for a request before its call returned or failed.
C20_SlotHeldDuringUpstream ==
  /\ \A t \in DOMAIN tokenUsage :
       tokenUsage[t].current >= Cardinality(InUpstream(t))
  /\ \A r \in Procs :
       pc[r] \in {"addTask", "update_processing", "yield_initial", "upstream"} =>
         /\ released[r] = <<>>
         /\ hs[r].tokenUsed \in DOMAIN tokenUsage
         /\ tokenUsage[hs[r].tokenUsed].current >= 1

\* Two requests are inside their upstream calls with the same credential.
C20_Witness ==
  \E t \in DOMAIN tokenUsage :
    /\ Cardinality(InUpstream(t)) = 2
    /\ tokenUsage[t].current = 2

\* C15: with caching enabled, a get(key) called right after a set(key) returned
\* (no operation was called in between and no time has passed, so that the entry
\* it finds is the one set registered) returns the path that set returned.
C15_GetAfterSet ==
  \A g \in CTasks, s \in CTasks :
    (/\ ct[s].op = "set" /\ ct[s].pc = "ret" /\ ct[s].ret.kind = "path"
     /\ ct[g].op = "get" /\ ct[g].pc = "ret" /\ ct[g].key = ct[s].key
     /\ ct[g].prev = s
     /\ ct[g].entry = NewEntry(ct[s].key, ct[s].ret, ct[s].stamp)
     /\ ct[g].now = ct[s].stamp)
    => ct[g].ret = ct[s].ret

C15_Witness ==
  \E g \in CTasks, s \in CTasks :
    /\ ct[s].op = "set" /\ ct[s].pc = "ret" /\ ct[s].ret.kind = "path"
    /\ ct[g].op = "get" /\ ct[g].pc = "ret" /\ ct[g].key = ct[s].key
    /\ ct[g].prev = s
    /\ ct[g].entry = NewEntry(ct[s].key, ct[s].ret, ct[s].stamp)
    /\ ct[g].now = ct[s].stamp /\ ct[s].stamp > 0
    /\ ct[g].ret = ct[s].ret

\* A get of task c returns in this step.
GetReturns(c) == ct[c].pc # "ret" /\ ct'[c].pc = "ret" /\ ct'[c].op = "get"

\* C16: with operations one at a time, get(key) returns the stored path exactly
\* when an entry for key exists, its age is at most the TTL and its file is
\* present; in every other case with an entry present it returns null, the key is
\* no longer in the index and getCacheStats().entries is one less than at the call.
C16_GetHitOrEvict ==
  [][\A c \in CTasks :
       GetReturns(c) =>
         LET t == ct'[c]
             e == t.entry
             hit == /\ e # NoEntry
                    /\ t.now - e.timestamp <= cacheTimeout * MsPerSecond
                    /\ ct[c].present
         IN  /\ t.ret.kind = "path" => (hit /\ t.ret = e.path)
             /\ hit => t.ret = e.path
             /\ (e # NoEntry /\ ~hit) =>
                  /\ t.ret = NullPath
                  /\ IndexOf(cacheMap', t.key) = 0
                  /\ getCacheStats(cacheMap').entries = ct[c].entries - 1]_vars

\* A hit at age exactly TTL, and an eviction
C16_Witness ==
  \E g \in CTasks, h \in CTasks :
    /\ ct[g].op = "get" /\ ct[g].pc = "ret" /\ ct[g].ret.kind = "path"
    /\ cacheTimeout > 0
    /\ ct[g].now - ct[g].entry.timestamp = cacheTimeout * MsPerSecond
    /\ ct[h].op = "get" /\ ct[h].pc = "ret" /\ ct[h].ret = NullPath
    /\ ct[h].entry # NoEntry

\* A cleanup pass of task c returns in this step.
CleanupReturns(c) == ct[c].pc # "ret" /\ ct'[c].pc = "ret" /\ ct'[c].op = "cleanup"

\* The entries of map that a pass which sampled the time nowv takes for expired
ExpiredAt(map, nowv) ==
  {j \in 1..Len(map) : nowv - map[j].timestamp > cacheTimeout * MsPerSecond}

\* C17: a cleanup pass with no concurrent cache operation removes from the index
\* exactly the entries whose age exceeds the TTL at the time of the pass and
\* deletes their files; no step of the pass removes the file of another entry.
C17_SweepExact ==
  [][\A c \in CTasks :
       /\ CleanupReturns(c) =>
            LET old == ExpiredAt(cacheMap, ct'[c].now) IN
            /\ cacheMap' = [j \in 1..(Len(cacheMap) - Cardinality(old)) |->
                              cacheMap[CHOOSE k \in (1..Len(cacheMap)) \ old :
                                 Cardinality({m \in (1..k) \ old : TRUE}) = j]]
            /\ \A j \in old : cacheMap[j].path \notin files'
       /\ (ct'[c].op = "cleanup" /\ ct'[c] # ct[c]) =>
            \A j \in (1..Len(cacheMap)) \ ExpiredAt(cacheMap, ct'[c].now) :
              cacheMap[j].path \in files => cacheMap[j].path \in files']_vars

\* C18: cleanup, get and set do not race on a key: a cleanup pass that resumes
\* after an await removes from the index only entries that were expired at the
\* time of the pass, and a get that resumes after its await removes only the
\* entry it found; neither removes an unexpired entry that a set registered
\* while it was suspended.
C18_NoRaceOnKey ==
  [][\A c \in CTasks, j \in 1..Len(cacheMap) :
       (/\ ct[c].pc \notin {"idle", "ret"}
        /\ ct'[c].pc = "ret"
        /\ IndexOf(cacheMap', cacheMap[j].key) = 0)
       => /\ ct[c].op = "cleanup" =>
               ct[c].now - cacheMap[j].timestamp > cacheTimeout * MsPerSecond
          /\ ct[c].op = "get" =>
               /\ cacheMap[j].path = ct[c].entry.path
               /\ cacheMap[j].timestamp = ct[c].entry.timestamp]_vars

\* C21: while caching is disabled, set returns "" and registers no entry, get
\* returns null and cleanup returns at once: none of them changes the index,
\* getCacheStats().entries or the files.
C21_DisabledNoOp ==
  [][\A c \in CTasks :
       (ct[c].pc = "idle" /\ ct'[c].pc # "idle" /\ ~cacheEnabled) =>
         /\ ct'[c].pc = "ret"
         /\ ct'[c].op = "set" => ct'[c].ret = EmptyPath
         /\ ct'[c].op = "get" => ct'[c].ret = NullPath
         /\ ct'[c].op = "cleanup" => ct'[c].ret = Void
         /\ cacheMap' = cacheMap
         /\ getCacheStats(cacheMap').entries = getCacheStats(cacheMap).entries
         /\ files' = files]_vars

\* Caching is disabled while the index has an expired entry: a get of its key has
\* returned null and the entry is still there.
C21_Witness ==
  \E g \in CTasks :
    /\ ~cacheEnabled
    /\ ct[g].op = "get" /\ ct[g].pc = "ret" /\ ct[g].ret = NullPath
    /\ IndexOf(cacheMap, ct[g].key) # 0
    /\ Expired(ct[g].now, MapGet(cacheMap, ct[g].key).timestamp, cacheTimeout)

\* C22: a releaseToken(token) call on a token whose usage count is 0 leaves the
\* count at 0 and is reported: it throws or logs, it is not a silent no-op.
C22_ReleaseAtZeroSignals ==
  [][\A t \in DOMAIN tokenUsage :
       (/\ Len(releases') = Len(releases) + 1
        /\ releases'[Len(releases')].token = t
        /\ tokenUsage[t].current = 0)
       => /\ tokenUsage'[t].current = 0
          /\ (releases'[Len(releases')].signal # "none" \/ logs' # logs)]_vars

\* C23: a file system failure inside the cache is never raised to the caller: a
\* set whose write fails returns "" and registers no entry, a get whose stat or
\* remove fails returns null.
C23_StorageFailureIsMiss ==
  [][\A c \in CTasks :
       (ct[c].pc # "ret" /\ ct'[c].pc = "ret" /\ ct'[c].rejected) =>
         /\ ct'[c].ret # Thrown
         /\ ct'[c].op = "set" => (ct'[c].ret = EmptyPath /\ cacheMap' = cacheMap)
         /\ ct'[c].op = "get" => ct'[c].ret = NullPath]_vars

\* The entries of the index that are not expired at time nowv
Unexpired(map, nowv) ==
  SelectSeq(map, LAMBDA e : ~(nowv - e.timestamp > cacheTimeout * MsPerSecond))

\* The keys of the entries of the index that are expired at time nowv, in order
ExpiredKeys(map, nowv) ==
  LET old == SelectSeq(map, LAMBDA e :
                              nowv - e.timestamp > cacheTimeout * MsPerSecond)
  IN  [j \in 1..Len(old) |-> old[j].key]

\* C24: a cleanup pass in which Deno.remove rejects still goes through every
\* expired entry (each is pushed on keysToDelete and has its remove attempted)
\* and removes all of them from the index.
C24_SweepSurvivesDeleteFailure ==
  [][\A c \in CTasks :
       (CleanupReturns(c) /\ ct'[c].rejected) =>
         /\ ct[c].keysToDelete = ExpiredKeys(cacheMap, ct[c].now)
         /\ cacheMap' = Unexpired(cacheMap, ct[c].now)]_vars

\* A pass has returned in which a remove was rejected: the file is still there
\* and no entry refers to it.
C24_Witness ==
  \E c \in CTasks :
    /\ ct[c].op = "cleanup" /\ ct[c].pc = "ret" /\ ct[c].rejected
    /\ \E p \in files : \A j \in 1..Len(cacheMap) : cacheMap[j].path # p

\* C25: with overlapping getToken calls on a fixed pool of N enabled credentials,
\* any N consecutive getNextToken() picks, whoever took them, are pairwise
\* distinct: no advance of the cursor is lost, no pick is handed out twice within
\* a cycle.
C25_RotationAtomic ==
  LET N == getTokensCount(tokens) IN
  \A i \in 1..Len(picks), j \in 1..Len(picks) :
    (i < j /\ j - i < N) => picks[i] # picks[j]

\* In a pool of three enabled credentials, a getToken call is suspended after its
\* second pick while another call is suspended too, and the record of picks is
\* full.
C25_Witness ==
  /\ getTokensCount(tokens) = 3
  /\ Len(picks) = MaxPicks
  /\ \E r \in Procs, q \in Procs :
       /\ r # q
       /\ pc[r] \in {"gt_canUse", "gt_increment"}
       /\ pc[q] = "gt_canUse" /\ gt[q].i >= 1

\* The number of picks the getToken call of r has taken so far
PicksOf(r) == IF gt[r].cand # NULL THEN gt[r].i + 1 ELSE gt[r].i

\* C26: one getToken call takes at most getTokensCount() picks (one cycle over
\* the enabled credentials), also when the pool has disabled credentials.
C26_PicksWithinCycle ==
  \A r \in Procs : PicksOf(r) <= getTokensCount(tokens)

\* C27: getNextToken() returns null exactly when no credential is enabled, and
\* otherwise a credential that is enabled at the time of the call, whatever cursor
\* earlier calls left and however the enabled set changed since; the index it
\* selects with is within the filtered list.
C27_NextEnabledTotal ==
  [][picks' # picks =>
       LET result == picks'[Len(picks')]
           N == getTokensCount(tokens)
       IN  /\ result = NULL <=> N = 0
           /\ result # NULL => result \in EnabledIds(tokens)
           /\ N > 0 => SelectIndex(tokenIndex, N) \in 0..(N - 1)]_vars

\* Calls have returned null and, after a reload, a credential; the pool was then
\* reloaded with fewer enabled credentials than the cursor counts.
C27_Witness ==
  /\ \E i \in 1..Len(picks), j \in 1..Len(picks) :
       i < j /\ picks[i] = NULL /\ picks[j] # NULL
  /\ getTokensCount(tokens) > 0
  /\ tokenIndex >= getTokensCount(tokens)
  /\ Len(picks) = MaxPicks

\* C28: setMaxConcurrentPerToken(max) leaves every usage count and the set of
\* tracked credentials as they are, and every tracked credential, whether it was
\* tracked before the call or by an initialize after it, has the budget last set.
C28_SetBudgetFrame ==
  [][/\ \A t \in DOMAIN tokenUsage' :
          tokenUsage'[t].max = maxConcurrentPerToken'
     /\ maxConcurrentPerToken' # maxConcurrentPerToken =>
          /\ DOMAIN tokenUsage' = DOMAIN tokenUsage
          /\ \A t \in DOMAIN tokenUsage :
               tokenUsage'[t].current = tokenUsage[t].current]_vars

\* The budget was lowered below the usage count of a credential, which kept its
\* count.
C28_Witness ==
  \E t \in DOMAIN tokenUsage :
    /\ tokenUsage[t].current = MaxBudget
    /\ tokenUsage[t].max = 1
    /\ maxConcurrentPerToken = 1

\* The last message of the request carries an image or a video reference.
hasSeedMedia(request) == Truthy(imageData(request)) \/ Truthy(videoData(request))

\* The operation that goes with a modality and the presence of seed media
ExpectedOperation(type, seed) ==
  IF type = "image"
  THEN IF seed THEN "generateImageFromImage" ELSE "generateImage"
  ELSE IF seed THEN "generateVideoFromImage" ELSE "generateVideo"

\* C29: a request that acquired a credential, parses and names a catalogued model
\* makes exactly one upstream call, no other request makes any, and the operation
\* called is the one that goes with the modality of the model and with whether the
\* last message carries an image or video reference.
C29_OneCallByModalityAndSeed ==
  \A r \in Procs :
    pc[r] # "start" =>
      LET request == hs[r].request
          eligible == /\ Acquired(r)
                      /\ ~parseThrows(request)
                      /\ request.model \in DOMAIN MODEL_CONFIG
      IN  /\ Len(calls[r]) <= 1
          /\ Len(calls[r]) = 1 =>
               /\ eligible
               /\ calls[r][1].op =
                    ExpectedOperation(MODEL_CONFIG[request.model],
                                      hasSeedMedia(request))
          /\ (pc[r] = "done" /\ eligible) => Len(calls[r]) = 1

\* C30: at any time two entries of the index under distinct keys have distinct
\* paths (so that removing the file of one never removes the file of another).
C30_DistinctPaths ==
  \A i \in 1..Len(cacheMap), j \in 1..Len(cacheMap) :
    cacheMap[i].key # cacheMap[j].key => cacheMap[i].path # cacheMap[j].path

\* C31: in streaming mode the transport writes the frames of the generator in
\* emission order and then the sentinel: every chunk written is the frame emitted
\* at its position, the sentinel is never written twice nor followed by anything,
\* it is written only after the generator is done with a terminal frame as the
\* last chunk, a transport that has come to writer.close() in its try block has
\* written all the frames and then the sentinel, and so has every transport that
\* has ended with no write or close rejected and no throw of the generator.
Chunks(fs) == [k \in 1..Len(fs) |-> SseChunk(fs[k])]

C31_SentinelOnceAndLast ==
  \A r \in Procs :
    LET out == wire[r].out IN
    /\ \A k \in 1..Len(out) :
         /\ out[k].kind = "chunk" =>
              k <= Len(frames[r]) /\ out[k] = SseChunk(frames[r][k])
         /\ out[k].kind = "done" =>
              /\ k = Len(out)
              /\ pc[r] = "done"
              /\ SubSeq(out, 1, k - 1) = Chunks(frames[r])
              /\ Terminal(frames[r][Len(frames[r])])
    /\ wire[r].pc \in {"close", "end"} => out = Chunks(frames[r]) \o <<SseDone>>
    /\ (/\ wire[r].pc \in {"end", "caught", "threw"}
        /\ wire[r].writer # "errored"
        /\ pc[r] # "threw")
         => out = Chunks(frames[r]) \o <<SseDone>>

\* C32: the Map returned by getAllTokenUsage() is a read-only copy: once taken, a
\* step of the manager (getToken, releaseToken, setMaxConcurrentPerToken,
\* initialize) leaves what the observer reads in it as it was, and a write of the
\* observer to it leaves the manager's tokenUsage as it was.
C32_SnapshotIsCopy ==
  [][(snapshot.taken /\ snapshot'.taken) =>
       IF snapshot'.writes # snapshot.writes
       THEN tokenUsage' = tokenUsage
       ELSE SnapshotReads' = SnapshotReads]_vars

\* The request has emitted its terminal frame and completed its finalizer, and its
\* task record, if it has one, is in a terminal status.
Finalized(r) ==
  /\ pc[r] = "done"
  /\ TerminalCount(frames[r]) = 1
  /\ Len(LogsOf(r)) = 1
  /\ Acquired(r) => released[r] = <<gt[r].ret>>
  /\ tasks[r] # <<>> => LastTask(r).status \in {"completed", "failed"}

\* C33: under fair scheduling every started request eventually emits its terminal
\* frame and completes its finalizer (credential released, log appended), and
\* its task does not stay pending or processing.
C33_EventuallyFinalized ==
  \A r \in 1..NumRequests : (pc[r] # "start") ~> Finalized(r)

\* Request r is in flight and has not yet called releaseToken.
InFlight(r) == pc[r] \notin {"start", "done"} /\ released[r] = <<>>

\* C34: no admission slot leaks: whenever no request is between its getToken call
\* and its release, every tracked credential has a usage count of 0.
C34_NoSlotLeak ==
  (\A r \in Procs : ~InFlight(r)) =>
    \A t \in DOMAIN tokenUsage : tokenUsage[t].current = 0

\* Request r emitted a success terminal frame that carries a result URL.
Succeeded(r) ==
  /\ frames[r] # <<>>
  /\ frames[r][Len(frames[r])].text = "Generation complete"
  /\ Truthy(frames[r][Len(frames[r])].ref)

\* C35: the status of a request's log entry agrees with its outcome: "completed"
\* exactly when the request emitted a success terminal frame with a result URL, and
\* "failed" whenever an error was caught (its message may be empty) or the request
\* ended without a result.
C35_LogStatusAgrees ==
  \A k \in 1..Len(logs) :
    LET l == logs[k] IN
    /\ l.status = "completed" <=> Succeeded(l.requestId)
    /\ (l.error # NULL \/ ~l.hasResult) => l.status = "failed"

\* C36: every enabled credential of the pool is tracked by the concurrency manager:
\* whenever no caller holds a credential or is inside getToken, canUseToken is true
\* of every enabled credential of the pool.
C36_EnabledAdmissible ==
  (\A r \in Procs : pc[r] \in {"idle", "released"}) =>
    \A k \in 1..Len(tokens) :
      tokens[k].enabled =>
        /\ tokens[k].token \in DOMAIN tokenUsage
        /\ canUseToken(tokenUsage, tokens[k].token)

\* The callers that hold credential t
Holders(t) == {r \in Procs : pc[r] = "holding" /\ held[r] = t}

\* C37: initialize() run again while callers hold credentials does not break the
\* budget: the number of callers that hold a credential at the same time never
\* exceeds the budget of that credential.
C37_BudgetAcrossReinit ==
  \A t \in DOMAIN tokenUsage : Cardinality(Holders(t)) <= tokenUsage[t].max

\* The positions of the index entries that reference path p
Referrers(p) == {j \in 1..Len(cacheMap) : cacheMap[j].path = p}

\* C38: the cache never orphans storage: between operations, every file that set
\* wrote and that was not deleted is referenced by exactly one entry of cacheMap.
C38_NoOrphanFile ==
  Quiet => \A p \in files : Cardinality(Referrers(p)) = 1

\* A sweep pass starts in this step: a cache task leaves idle for cleanup.
SweepStarts ==
  \E c \in CTasks :
    ct[c].pc = "idle" /\ ct'[c].pc # "idle" /\ ct'[c].op = "cleanup"

\* C39: after stopCleanupTask() has returned (and until startCleanupTask() is
\* called again) no periodic sweep pass starts, however many times
\* startCleanupTask() was called before.
C39_NoSweepAfterStop ==
  [][timers.stopped => ~SweepStarts]_vars

\* C40: in the statistics the available count never exceeds the total count of
\* enabled credentials.
C40_AvailableWithinTotal ==
  tokenStats(tokens, tokenUsage).available <= tokenStats(tokens, tokenUsage).total

====
